---- MODULE Spec2Model ----
(***************************************************************************)
(* Model of rx-rust: the Subject (BaseSubject / PublishSubject /           *)
(* BehaviorSubject) registry and fan-out, the Subscription / Disposal      *)
(* handles, and the Delay operator over a Scheduler.                       *)
(***************************************************************************)
EXTENDS Integers, Sequences, FiniteSets, TLC

\* ---------------------------------------------------------------- bounds
NumObs == 2        \* observers that may be handed to subscribe
NumVals == 2       \* distinct Next payloads 1..NumVals
MaxEmits == 2      \* events pushed into the subject (or straight to an observer)
DelayTicks == 2    \* the Duration handed to Delay::new, in clock ticks
MaxTime == 3       \* clock ticks the Delay model runs for
MaxInserts == 2    \* calls of insert_disposal_action on one Subscription

Obs == 1..NumObs
Val == 1..NumVals
Addr == 1..NumObs  \* heap addresses an Arc allocation may get

\* ---------------------------------------------------------------- events
\* observer/event.rs: Event::Next(T) | Event::Terminated(Terminated<E>)
Next_(v) == [kind |-> "Next", v |-> v, t |-> "-"]
Terminated_(t) == [kind |-> "Terminated", v |-> 0, t |-> t]
Terminals == {"Completed", "Error", "Unsubscribed"}
Event == {Next_(v) : v \in Val} \cup {Terminated_(t) : t \in Terminals}
IsTerminated(ev) == ev.kind = "Terminated"

\* Events with the payload of Terminated::Error, for the transforms of Event
Err == 1..NumVals  \* error payloads
Out == 0..NumVals  \* the type T2 / E2 a transform maps into
EventNext(v) == [kind |-> "Next", v |-> v, t |-> "-", e |-> 0]
EventTerminated(t, e) == [kind |-> "Terminated", v |-> 0, t |-> t, e |-> e]
PayloadEvent ==
  {EventNext(v) : v \in Val} \cup {EventTerminated("Error", e) : e \in Err}
    \cup {EventTerminated("Unsubscribed", 0), EventTerminated("Completed", 0)}
NoPayloadEvent == [kind |-> "-", v |-> 0, t |-> "-", e |-> 0]

\* mutant: map_value rebuilds every terminal as Completed
EventMapValueCompletes(ev, f) ==
  IF ev.kind = "Next" THEN EventNext(f[ev.v])
  ELSE EventTerminated("Completed", 0)

\* Event::map_value
EventMapValue(ev, f) ==
  IF ev.kind = "Next" THEN EventNext(f[ev.v])
  ELSE EventTerminated(ev.t, ev.e)

\* Event::map_error
EventMapError(ev, g) ==
  IF ev.kind = "Next" THEN EventNext(ev.v)
  ELSE IF ev.t = "Error" THEN EventTerminated("Error", g[ev.e])
  ELSE IF ev.t = "Unsubscribed" THEN EventTerminated("Unsubscribed", 0)
  ELSE EventTerminated("Completed", 0)

VARIABLES
  kind,               \* which Subject variant was constructed
  observers,          \* BaseSubject.observers: ptr -> observer
  terminated,         \* BaseSubject.terminated
  value,              \* BehaviorSubject.value
  behaviorTerminated, \* BehaviorSubject.terminated: "None" or the terminal
  events,             \* CheckingObserver.events, per observer
  obsTerminated,      \* CheckingObserver.terminated, per observer
  hstate,             \* per handle: "none" (not built), "live", "dropped"
  hkind,              \* per handle: the type and constructor that built it
  haction,            \* per handle: the Option holding its FnOnce
  counter,            \* per handle: how often its cleanup action has run
  panicked,           \* a panic!/assert!/unwrap fired
  sent,               \* history: events pushed into the subject, in order, up to
                      \* and including the first terminal pushed
  subscribedAt,       \* history: Len(sent) when the observer subscribed
  emits,              \* number of events pushed so far
  now,                \* the clock of the timer the scheduler sleeps on
  dobs,               \* the DelayObserver: "held" by the upstream, "moved" into the
                      \* Completed closure, or "dropped"
  cell,               \* DelayObserver.upstream_observer: is the Option Some
  guard,              \* the task holding the MutexGuard of upstream_observer, or 0
  tasks,              \* the tasks handed to Scheduler::schedule, in order
  disposals,          \* DelayObserver.disposals: the tokens (task indices) pushed
  outer,              \* the Disposal Delay::subscribe returned: "live" or "disposed"
  upTerminal,         \* history: the terminal the upstream has sent, or "None"
  requested,          \* history: the delay each schedule call was handed
  tasksAtDispose,     \* history: how many tasks had been scheduled when the
                      \* returned Disposal was disposed
  stamps,             \* history: per entry of the downstream log, when the event
                      \* came from upstream, when it was delivered and how
  th,                 \* per thread: where it is in the call it is executing
  readers,            \* the threads holding BaseSubject.observers' RwLock for reading
  react,              \* per observer: what its handler does when handed a Next
  mapIn,              \* the Event a transform is called on
  mapOp,              \* the transform called: "map_value", "map_error" or "-"
  mapFn,              \* the function handed to the transform
  mapOut,             \* the Event the transform returned
  snapshot,           \* history: for every observer the fan-out in progress found
                      \* registered, its log and its flag when the lock was taken
  up,                 \* the subject the modelled subject is subscribed to: its
                      \* fields, the state of that Subscription ("none", "live",
                      \* "dropped"), and Len(sent) and the observers that had
                      \* subscribed when it was made
  cold,               \* the cold observable under test: its source and fields, the
                      \* copies of its handler's captured state, and per
                      \* subscription the copy it runs on and how far the call is
  chain,              \* the chain of Maps under test: the mappers, per subscription
                      \* the terminated flags of the observers Map::subscribe
                      \* built, and (history) the events the source has sent
  inserts,            \* history: per handle, the calls of insert_disposal_action
  ran                 \* history: per handle, the cleanup actions that have run, in
                      \* order: 0 for the constructor's, n for the n-th inserted

svars == <<kind, observers, terminated, value, behaviorTerminated, sent, subscribedAt>>
ovars == <<events, obsTerminated, panicked, emits>>
hvars == <<hstate, hkind, haction, counter>>

dvars == <<now, dobs, cell, guard, tasks, disposals, outer, upTerminal, requested, tasksAtDispose, stamps>>

cvars == <<th, readers, react>>

evars == <<mapIn, mapOp, mapFn, mapOut>>

bvars == <<up>>

kvars == <<cold, chain>>

yvars == <<evars, snapshot, inserts, bvars, kvars>>

xvars == <<yvars, ran>>

vars == <<svars, ovars, hvars, dvars, cvars, xvars>>

\* The seed handed to BehaviorSubject::new
Seed == 0

\* The handle that guards observer o, and that observer, share the index
Handle == Obs

\* Option::None, and the closures the code and its tests put in a handle
NoAction == [fn |-> "None", arg |-> 0]
\* move || { *counter += 1 }
CountAction(h) == [fn |-> "count", arg |-> h]
\* move || { self.observers.write().unwrap().remove(&ptr); }
RemoveAction(ptr) == [fn |-> "remove", arg |-> ptr]
\* the body of Subscription::new_non_disposal_action has no disposal_action
NopAction == [fn |-> "nop", arg |-> 0]
\* the n-th closure handed to insert_disposal_action on handle h
InsertedAction(h, n) == [fn |-> "inserted", arg |-> h, n |-> n]

SubscriptionKinds == {"Subscription", "SubscriptionNonDisposalAction"}
HandleKinds == {"Disposal", "Subscriber", "SubscriberEmpty", "AnonymousCancellable"}
                 \cup SubscriptionKinds

\* The program state the code's functions read and write, as one record
Cur == [observers |-> observers, terminated |-> terminated, value |-> value,
        behaviorTerminated |-> behaviorTerminated, events |-> events,
        obsTerminated |-> obsTerminated, panicked |-> panicked,
        haction |-> haction, counter |-> counter, ran |-> ran]

Install(s) ==
  /\ observers' = s.observers
  /\ terminated' = s.terminated
  /\ value' = s.value
  /\ behaviorTerminated' = s.behaviorTerminated
  /\ events' = s.events
  /\ obsTerminated' = s.obsTerminated
  /\ panicked' = s.panicked
  /\ haction' = s.haction
  /\ counter' = s.counter
  /\ ran' = s.ran

\* -------------------------------------------------------------- observer
\* CheckingObserver::received: panic when the last entry is a terminal
CheckingObserverReceived(s, o, ev) ==
  IF Len(s.events[o]) > 0 /\ IsTerminated(s.events[o][Len(s.events[o])])
  THEN [s EXCEPT !.panicked = TRUE]
  ELSE [s EXCEPT !.events[o] = Append(@, ev)]

\* Observer::notify_if_unterminated (default method of the Observer trait)
NotifyIfUnterminated(s, o, ev) ==
  IF s.obsTerminated[o] THEN s
  ELSE CheckingObserverReceived(
         IF IsTerminated(ev) THEN [s EXCEPT !.obsTerminated[o] = TRUE] ELSE s,
         o, ev)

\* --------------------------------------------------------------- subject
RECURSIVE FanOut(_, _, _)
FanOut(s, keys, ev) ==
  IF keys = {} THEN s
  ELSE LET k == CHOOSE k \in keys : TRUE
       IN FanOut(NotifyIfUnterminated(s, s.observers[k], ev), keys \ {k}, ev)

\* mutant: the fan-out stops after the first registered observer
BaseSubjectOnFirstOnly(s, ev) ==
  IF DOMAIN s.observers = {} THEN s
  ELSE FanOut(s, {CHOOSE k \in DOMAIN s.observers : TRUE}, ev)

\* BaseSubject::on
BaseSubjectOn(s, ev) == FanOut(s, DOMAIN s.observers, ev)

\* mutant: a Next is fanned out without being stored as the current value
BehaviorSubjectOnNoStore(s, ev) ==
  IF ~IsTerminated(ev)
  THEN BaseSubjectOn(s, ev)
  ELSE IF s.behaviorTerminated # "None"
       THEN [s EXCEPT !.panicked = TRUE]
       ELSE BaseSubjectOn([s EXCEPT !.behaviorTerminated = ev.t], ev)

\* BehaviorSubject::on
BehaviorSubjectOn(s, ev) ==
  IF ~IsTerminated(ev)
  THEN BaseSubjectOn([s EXCEPT !.value = ev.v], ev)
  ELSE IF s.behaviorTerminated # "None"
       THEN [s EXCEPT !.panicked = TRUE]
       ELSE BaseSubjectOn([s EXCEPT !.behaviorTerminated = ev.t], ev)

\* BaseSubject::terminated
BaseSubjectTerminated(s) == s.terminated

\* mutant: set_terminated does not store the flag
BaseSubjectSetTerminatedLost(s) == s

\* BaseSubject::set_terminated
BaseSubjectSetTerminated(s) == [s EXCEPT !.terminated = TRUE]

\* notify_if_unterminated on the subject itself, through
\* BaseSubject::terminated / set_terminated and the variant's on
SubjectNotifyIfUnterminated(s, ev) ==
  IF BaseSubjectTerminated(s) THEN s
  ELSE LET s1 == IF IsTerminated(ev) THEN BaseSubjectSetTerminated(s) ELSE s
       IN IF kind = "behavior" THEN BehaviorSubjectOn(s1, ev)
          ELSE BaseSubjectOn(s1, ev)

\* Addresses of the Arc allocations that are alive: those the registry
\* holds and those the closure of a not yet disposed Subscription holds
LiveAddr == DOMAIN observers \cup
            {haction[h].arg : h \in {g \in Handle : haction[g].fn = "remove"}}

\* HashMap::insert
MapInsert(m, k, x) == [j \in DOMAIN m \cup {k} |-> IF j = k THEN x ELSE m[j]]
\* HashMap::remove
MapRemove(m, k) == [j \in DOMAIN m \ {k} |-> m[j]]

\* BaseSubject::subscribe: insert under the Arc's address
BaseSubjectSubscribe(s, o, ptr) == [s EXCEPT !.observers = MapInsert(@, ptr, o)]

\* BehaviorSubject::subscribe
BehaviorSubjectSubscribe(s, o, ptr) ==
  BaseSubjectSubscribe(NotifyIfUnterminated(s, o, Next_(s.value)), o, ptr)

\* mutant: the disposal action leaves the registry as it is
SubjectDisposalActionKeep(s, ptr) == s

\* mutant: the disposal action clears the registry instead of removing ptr
SubjectDisposalActionClear(s, ptr) == [s EXCEPT !.observers = << >>]

\* the disposal_action BaseSubject::subscribe hands to Subscription::new
SubjectDisposalAction(s, ptr) == [s EXCEPT !.observers = MapRemove(@, ptr)]

\* ----------------------------------------------------- disposal handles
\* calling a disposal_action closure
CallAction(s, act) ==
  CASE act.fn = "remove" -> SubjectDisposalAction(s, act.arg)
    [] act.fn = "count" -> [s EXCEPT !.counter[act.arg] = @ + 1,
                                     !.ran[act.arg] = Append(@, 0)]
    [] act.fn = "inserted" -> [s EXCEPT !.ran[act.arg] = Append(@, act.n)]
    [] OTHER -> s

\* mutant: the closure hands the observer Unsubscribed without asking
\* whether it has terminated
SubscriptionNewUnchecked(s, o, act) ==
  CheckingObserverReceived(CallAction(s, act), o, Terminated_("Unsubscribed"))

\* mutant: the closure reports Completed instead of Unsubscribed
SubscriptionNewCompleted(s, o, act) ==
  LET s1 == CallAction(s, act)
  IN IF ~s1.obsTerminated[o]
     THEN NotifyIfUnterminated(s1, o, Terminated_("Completed"))
     ELSE s1

\* the closure built by Subscription::new
SubscriptionNew(s, o, act) ==
  LET s1 == CallAction(s, act)
  IN IF ~s1.obsTerminated[o]
     THEN NotifyIfUnterminated(s1, o, Terminated_("Unsubscribed"))
     ELSE s1

\* the closure built by Subscription::new_non_disposal_action
SubscriptionNewNonDisposalAction(s, o) ==
  IF ~s.obsTerminated[o]
  THEN NotifyIfUnterminated(s, o, Terminated_("Unsubscribed"))
  ELSE s

\* mutant: the new Subscription forgets the Disposal it was built from
SubscriptionInsertDisposalActionOnly(act, ins) ==
  [fn |-> "insert", arg |-> ins, inner |-> NoAction]

\* the closure built by Subscription::insert_disposal_action: it owns the
\* inserted closure and the Disposal of the Subscription it replaces
SubscriptionInsertDisposalAction(act, ins) ==
  [fn |-> "insert", arg |-> ins, inner |-> act]

\* calling the FnOnce that handle h stores
RECURSIVE HandleAction(_, _, _)
HandleAction(s, h, act) ==
  CASE act.fn = "insert" ->
         LET s1 == CallAction(s, act.arg)
         IN IF act.inner # NoAction THEN HandleAction(s1, h, act.inner) ELSE s1
    [] hkind[h] = "Subscription" -> SubscriptionNew(s, h, act)
    [] hkind[h] = "SubscriptionNonDisposalAction" -> SubscriptionNewNonDisposalAction(s, h)
    [] OTHER -> CallAction(s, act)

\* mutant: the Disposal is forgotten, its action never runs
DisposalDropForget(s, h) == [s EXCEPT !.haction[h] = NoAction]

\* Drop for Disposal: match self.action.take()
DisposalDrop(s, h) ==
  IF s.haction[h] # NoAction
  THEN HandleAction([s EXCEPT !.haction[h] = NoAction], h, s.haction[h])
  ELSE s

\* Drop for Subscriber: if let Some(dispose) = self.dispose.take()
SubscriberDrop(s, h) ==
  IF s.haction[h] # NoAction
  THEN HandleAction([s EXCEPT !.haction[h] = NoAction], h, s.haction[h])
  ELSE s

\* Drop for AnonymousCancellable: if let Some(action) = self.action.take()
AnonymousCancellableDrop(s, h) ==
  IF s.haction[h] # NoAction
  THEN HandleAction([s EXCEPT !.haction[h] = NoAction], h, s.haction[h])
  ELSE s

\* mutant: cancel calls the action through a reference and leaves it in place
AnonymousCancellableCancelNoTake(s, h) ==
  IF s.haction[h] = NoAction THEN [s EXCEPT !.panicked = TRUE]
  ELSE HandleAction(s, h, s.haction[h])

\* AnonymousCancellable::cancel: self.action.take().unwrap()()
AnonymousCancellableCancel(s, h) ==
  IF s.haction[h] = NoAction THEN [s EXCEPT !.panicked = TRUE]
  ELSE HandleAction([s EXCEPT !.haction[h] = NoAction], h, s.haction[h])

\* the handle goes out of scope: the Drop impl of its type
DropOf(s, h) ==
  CASE hkind[h] \in {"Subscriber", "SubscriberEmpty"} -> SubscriberDrop(s, h)
    [] hkind[h] = "AnonymousCancellable" -> AnonymousCancellableDrop(s, h)
    [] OTHER -> DisposalDrop(s, h)

\* Disposal::to_boxed: move the action into a new Disposal, drop the old one
DisposalToBoxed(s, h) ==
  IF s.haction[h] = NoAction THEN [s EXCEPT !.panicked = TRUE]
  ELSE [DisposalDrop([s EXCEPT !.haction[h] = NoAction], h)
          EXCEPT !.haction[h] = s.haction[h]]

\* the Option a constructor stores
NewAction(h, k) ==
  CASE k = "SubscriberEmpty" -> NoAction
    [] k = "SubscriptionNonDisposalAction" -> NopAction
    [] OTHER -> CountAction(h)

\* --------------------------------------------------------------- actions
InitSubject ==
  /\ observers = << >>
  /\ terminated = FALSE
  /\ value = Seed
  /\ behaviorTerminated = "None"
  /\ sent = << >>
  /\ subscribedAt = [o \in Obs |-> 0]

InitObservers ==
  /\ events = [o \in Obs |-> << >>]
  /\ obsTerminated = [o \in Obs |-> FALSE]
  /\ panicked = FALSE
  /\ emits = 0

InitDelay ==
  /\ now = 0
  /\ dobs = "held"
  /\ cell = TRUE
  /\ guard = 0
  /\ tasks = << >>
  /\ disposals = << >>
  /\ outer = "live"
  /\ upTerminal = "None"
  /\ requested = << >>
  /\ tasksAtDispose = 0
  /\ stamps = << >>

\* the threads of the concurrency model and a thread outside any call
Threads == {"pub", "usr"}
NoEvent == [kind |-> "-", v |-> 0, t |-> "-"]
Idle == [pc |-> "idle", o |-> 0, ev |-> NoEvent, rest |-> {}, ret |-> "idle"]

InitThreads ==
  /\ th = [t \in Threads |-> Idle]
  /\ readers = {}
  /\ react = [o \in Obs |-> "log"]

\* no transform has been called
InitEvent ==
  /\ mapIn = NoPayloadEvent
  /\ mapOp = "-"
  /\ mapFn = << >>
  /\ mapOut = NoPayloadEvent

InitInserted ==
  /\ inserts = [h \in Handle |-> 0]
  /\ ran = [h \in Handle |-> << >>]

\* the upstream subject, with nothing subscribed to it
InitUp ==
  up = [terminated |-> FALSE, value |-> Seed, behaviorTerminated |-> "None",
        panicked |-> FALSE, link |-> "none", linkedAt |-> 0, before |-> {}]

\* no cold observable has been built
ColdNone ==
  [source |-> "none", mapped |-> FALSE, f |-> << >>, value |-> 0,
   nexts |-> 0, term |-> "None",
   captured |-> [k \in 0..NumObs |-> 0], ref |-> [i \in Obs |-> 0],
   pc |-> [i \in Obs |-> "none"], pos |-> [i \in Obs |-> 0]]

InitCold == cold = ColdNone

ChainNone ==
  [fs |-> << >>, flag |-> [o \in Obs |-> << >>], script |-> [o \in Obs |-> << >>]]

InitChain == chain = ChainNone

InitExtra == InitEvent /\ snapshot = << >> /\ InitInserted /\ InitUp /\ InitCold /\ InitChain

InitHandles ==
  /\ hstate = [h \in Handle |-> "none"]
  /\ hkind = [h \in Handle |-> "Disposal"]
  /\ haction = [h \in Handle |-> NoAction]
  /\ counter = [h \in Handle |-> 0]

\* subject.clone().subscribe(observer)
Subscribe(o) ==
  /\ ~panicked
  /\ hstate[o] = "none"
  /\ hstate' = [hstate EXCEPT ![o] = "live"]
  /\ hkind' = [hkind EXCEPT ![o] = "Subscription"]
  /\ \E ptr \in Addr \ LiveAddr :
       LET s1 == IF kind = "behavior" THEN BehaviorSubjectSubscribe(Cur, o, ptr)
                 ELSE BaseSubjectSubscribe(Cur, o, ptr)
       IN Install([s1 EXCEPT !.haction[o] = RemoveAction(ptr)])
  /\ subscribedAt' = [subscribedAt EXCEPT ![o] = Len(sent)]
  /\ UNCHANGED <<yvars, cvars, dvars, kind, sent, emits>>

\* history: a terminal has been pushed into the subject
Closed == sent # << >> /\ IsTerminated(sent[Len(sent)])

\* subject.notify_if_unterminated(event)
Notify(ev) ==
  /\ ~panicked
  /\ emits < MaxEmits
  /\ emits' = emits + 1
  /\ Install(SubjectNotifyIfUnterminated(Cur, ev))
  /\ sent' = IF Closed THEN sent ELSE Append(sent, ev)
  /\ UNCHANGED <<yvars, cvars, dvars, kind, hstate, hkind, subscribedAt>>

\* Subscription::unsubscribe: self.disposal.dispose()
Unsubscribe(h) ==
  /\ ~panicked
  /\ hstate[h] = "live" /\ hkind[h] \in SubscriptionKinds
  /\ Install(DisposalDrop(Cur, h))
  /\ hstate' = [hstate EXCEPT ![h] = "dropped"]
  /\ UNCHANGED <<yvars, cvars, dvars, kind, hkind, sent, subscribedAt, emits>>

\* a handle goes out of scope without an explicit call
DropHandle(h) ==
  /\ ~panicked
  /\ hstate[h] = "live"
  /\ Install(DropOf(Cur, h))
  /\ hstate' = [hstate EXCEPT ![h] = "dropped"]
  /\ UNCHANGED <<yvars, cvars, dvars, kind, hkind, sent, subscribedAt, emits>>

\* Disposal::new, Subscriber::new, Subscriber::new_empty,
\* AnonymousCancellable::new, Subscription::new,
\* Subscription::new_non_disposal_action
New(h, k) ==
  /\ ~panicked
  /\ hstate[h] = "none"
  /\ hstate' = [hstate EXCEPT ![h] = "live"]
  /\ hkind' = [hkind EXCEPT ![h] = k]
  /\ haction' = [haction EXCEPT ![h] = NewAction(h, k)]
  /\ UNCHANGED <<xvars, cvars, svars, ovars, counter, dvars>>

\* Disposal::dispose: the body is empty, self is dropped
Dispose(h) ==
  /\ ~panicked
  /\ hstate[h] = "live" /\ hkind[h] = "Disposal"
  /\ Install(DisposalDrop(Cur, h))
  /\ hstate' = [hstate EXCEPT ![h] = "dropped"]
  /\ UNCHANGED <<yvars, cvars, dvars, kind, hkind, sent, subscribedAt, emits>>

\* Subscriber::unsubscribe: the body is empty, self is dropped
SubscriberUnsubscribe(h) ==
  /\ ~panicked
  /\ hstate[h] = "live" /\ hkind[h] \in {"Subscriber", "SubscriberEmpty"}
  /\ Install(SubscriberDrop(Cur, h))
  /\ hstate' = [hstate EXCEPT ![h] = "dropped"]
  /\ UNCHANGED <<yvars, cvars, dvars, kind, hkind, sent, subscribedAt, emits>>

\* AnonymousCancellable::cancel, then self is dropped
Cancel(h) ==
  /\ ~panicked
  /\ hstate[h] = "live" /\ hkind[h] = "AnonymousCancellable"
  /\ Install(AnonymousCancellableDrop(AnonymousCancellableCancel(Cur, h), h))
  /\ hstate' = [hstate EXCEPT ![h] = "dropped"]
  /\ UNCHANGED <<yvars, cvars, dvars, kind, hkind, sent, subscribedAt, emits>>

\* Disposal::to_boxed
ToBoxed(h) ==
  /\ ~panicked
  /\ hstate[h] = "live" /\ hkind[h] = "Disposal"
  /\ Install(DisposalToBoxed(Cur, h))
  /\ UNCHANGED <<yvars, cvars, dvars, kind, hstate, hkind, sent, subscribedAt, emits>>

\* observer.notify_if_unterminated(event), by the code that built a
\* Subscription around the observer
NotifyObserver(o, ev) ==
  /\ ~panicked
  /\ hstate[o] = "live" /\ hkind[o] \in SubscriptionKinds
  /\ emits < MaxEmits
  /\ emits' = emits + 1
  /\ Install(NotifyIfUnterminated(Cur, o, ev))
  /\ UNCHANGED <<yvars, cvars, dvars, kind, hstate, hkind, sent, subscribedAt>>

\* ------------------------------------------------- subject specification
Init ==
  /\ kind \in {"publish", "behavior"}
  /\ InitSubject /\ InitObservers /\ InitHandles /\ InitDelay /\ InitThreads /\ InitExtra

Next ==
  \/ \E o \in Obs : Subscribe(o)
  \/ \E ev \in Event : Notify(ev)
  \/ \E o \in Obs : Unsubscribe(o)
  \/ \E o \in Obs : DropHandle(o)

Spec == Init /\ [][Next]_vars

\* the same operations on a BehaviorSubject
InitBehavior == Init /\ kind = "behavior"

SpecF == InitBehavior /\ [][Next]_vars

\* ------------------------------------------------ direct on specification
\* subject.on(event): the Observer method of the subject called directly,
\* as internal composition code may, without notify_if_unterminated
On(ev) ==
  /\ ~panicked
  /\ emits < MaxEmits
  /\ emits' = emits + 1
  /\ Install(IF kind = "behavior" THEN BehaviorSubjectOn(Cur, ev)
             ELSE BaseSubjectOn(Cur, ev))
  /\ sent' = Append(sent, ev)
  /\ UNCHANGED <<yvars, cvars, dvars, kind, hstate, hkind, subscribedAt>>

NextO ==
  \/ \E o \in Obs : Subscribe(o)
  \/ \E ev \in Event : On(ev)
  \/ \E o \in Obs : Unsubscribe(o)

SpecO == Init /\ [][NextO]_vars

\* ------------------------------------------------- handle specification
InitH ==
  /\ kind = "publish"
  /\ InitSubject /\ InitObservers /\ InitHandles /\ InitDelay /\ InitThreads /\ InitExtra

NextH ==
  \/ \E h \in Handle, k \in HandleKinds : New(h, k)
  \/ \E h \in Handle : Dispose(h)
  \/ \E h \in Handle : SubscriberUnsubscribe(h)
  \/ \E h \in Handle : Cancel(h)
  \/ \E h \in Handle : Unsubscribe(h)
  \/ \E h \in Handle : DropHandle(h)
  \/ \E h \in Handle : ToBoxed(h)
  \/ \E h \in Handle, ev \in Event : NotifyObserver(h, ev)

SpecH == InitH /\ [][NextH]_vars

\* ------------------------------------------------ inserted disposal actions
\* subscription.insert_disposal_action(closure): self is consumed, its
\* Disposal moves into the closure of the Subscription returned
InsertDisposalAction(h) ==
  /\ ~panicked
  /\ hstate[h] = "live" /\ hkind[h] \in SubscriptionKinds
  /\ inserts[h] < MaxInserts
  /\ inserts' = [inserts EXCEPT ![h] = @ + 1]
  /\ haction' = [haction EXCEPT ![h] =
                   SubscriptionInsertDisposalAction(@, InsertedAction(h, inserts[h] + 1))]
  /\ UNCHANGED <<evars, kvars, bvars, snapshot, ran, cvars, svars, ovars, hstate, hkind, counter, dvars>>

\* the one Subscription of test_insert_disposal_action, and its observer
Guarded == 1

NextI ==
  \/ \E k \in SubscriptionKinds : New(Guarded, k)
  \/ InsertDisposalAction(Guarded)
  \/ Unsubscribe(Guarded)
  \/ DropHandle(Guarded)
  \/ \E ev \in Event : NotifyObserver(Guarded, ev)

SpecI == InitH /\ [][NextI]_vars

\* ================================================================== delay
\* The observer Delay::subscribe is handed: its log is events[Downstream]
Downstream == 1

\* Option<Duration>
None == << >>
Some(d) == <<d>>

\* the closures DelayObserver hands to the scheduler, with what they capture
NextClosure(v) == [fn |-> "next", v |-> v, t |-> "-"]
\* the closure of the scheduler's tests: tx.send(())
FlagClosure == [fn |-> "flag", v |-> 0, t |-> "-"]
TerminalClosure(t) == [fn |-> "terminal", v |-> 0, t |-> t]

\* The state the Delay code reads and writes, as one record
DCur == [now |-> now, dobs |-> dobs, cell |-> cell, guard |-> guard, tasks |-> tasks,
         disposals |-> disposals, events |-> events, panicked |-> panicked,
         requested |-> requested, stamps |-> stamps]

DInstall(d) ==
  /\ dobs' = d.dobs
  /\ cell' = d.cell
  /\ guard' = d.guard
  /\ tasks' = d.tasks
  /\ disposals' = d.disposals
  /\ events' = d.events
  /\ panicked' = d.panicked
  /\ requested' = d.requested
  /\ stamps' = d.stamps

\* mutant: the spawned task does not sleep
TokioSchedulerScheduleNoSleep(d, task, delay) ==
  [d EXCEPT !.tasks = Append(@, [task |-> task, at |-> d.now, due |-> d.now,
                                 state |-> "pending"]),
            !.requested = Append(@, delay)]

\* TokioScheduler::schedule: spawn a task that sleeps for the delay, if there
\* is one, and then runs the closure; the token is the index of the task
TokioSchedulerSchedule(d, task, delay) ==
  [d EXCEPT !.tasks = Append(@, [task |-> task, at |-> d.now,
                                 due |-> d.now + (IF delay = None THEN 0 ELSE delay[1]),
                                 state |-> "pending"]),
            !.requested = Append(@, delay)]

\* mutant: the token does nothing
AbortNothing(ts, i) == ts

\* mutant: the token cancels the task whatever its state
AbortAnyState(ts, i) == [ts EXCEPT ![i].state = "aborted"]

\* mutant: the token cancels every task that has not started
AbortAll(ts, i) ==
  [n \in DOMAIN ts |->
     IF ts[n].state = "pending" THEN [ts[n] EXCEPT !.state = "aborted"] ELSE ts[n]]

\* move || handle.abort(): a task that has not started never starts
Abort(ts, i) ==
  IF ts[i].state = "pending" THEN [ts EXCEPT ![i].state = "aborted"] ELSE ts

\* Dropping the Vec<Disposal> drops every token, and Disposal's Drop runs
\* the token's action
RECURSIVE DropDisposals(_, _)
DropDisposals(ts, q) ==
  IF q = << >> THEN ts ELSE DropDisposals(Abort(ts, Head(q)), Tail(q))

\* The downstream observer is handed an event: on_next / on_terminal of the
\* CheckingObserver, with the time stamps of the delivery
Deliver(d, ev, recvAt, via) ==
  LET d1 == CheckingObserverReceived(d, Downstream, ev)
  IN IF d1.panicked THEN d1
     ELSE [d1 EXCEPT !.stamps = Append(@, [recvAt |-> recvAt, at |-> d.now, via |-> via])]

\* The DelayObserver goes out of scope: the last owner of disposals is gone
DropDelayObserver(d) ==
  [d EXCEPT !.dobs = "dropped",
            !.tasks = DropDisposals(@, d.disposals),
            !.disposals = << >>]

\* mutant: the value is scheduled with no delay
DelayObserverOnNextNoDelay(d, v) ==
  LET d1 == TokioSchedulerSchedule(d, NextClosure(v), None)
  IN [d1 EXCEPT !.disposals = Append(@, Len(d1.tasks))]

\* DelayObserver::on_next
DelayObserverOnNext(d, v) ==
  LET d1 == TokioSchedulerSchedule(d, NextClosure(v), Some(DelayTicks))
  IN [d1 EXCEPT !.disposals = Append(@, Len(d1.tasks))]

\* mutant: the error is scheduled with the delay, as Completed is
DelayObserverOnTerminalAllDelayed(d, t) ==
  LET d1 == TokioSchedulerSchedule(d, TerminalClosure(t), Some(DelayTicks))
  IN [d1 EXCEPT !.disposals = Append(@, Len(d1.tasks)), !.dobs = "moved"]

\* mutant: the Completed closure does not own the token collection, which
\* is dropped with the DelayObserver when on_terminal returns
DelayObserverOnTerminalDropsTokens(d, t) ==
  IF t = "Error"
  THEN IF ~d.cell THEN [d EXCEPT !.panicked = TRUE]
       ELSE DropDelayObserver(
              Deliver([d EXCEPT !.cell = FALSE], Terminated_(t), d.now, "sync"))
  ELSE LET d1 == TokioSchedulerSchedule(d, TerminalClosure(t), Some(DelayTicks))
       IN [d1 EXCEPT !.tasks = DropDisposals(@, Append(d.disposals, Len(d1.tasks))),
                     !.disposals = << >>, !.dobs = "moved"]

\* DelayObserver::on_terminal
DelayObserverOnTerminal(d, t) ==
  IF t = "Error"
  THEN IF ~d.cell THEN [d EXCEPT !.panicked = TRUE]
       ELSE DropDelayObserver(
              Deliver([d EXCEPT !.cell = FALSE], Terminated_(t), d.now, "sync"))
  ELSE LET d1 == TokioSchedulerSchedule(d, TerminalClosure(t), Some(DelayTicks))
       IN [d1 EXCEPT !.disposals = Append(@, Len(d1.tasks)), !.dobs = "moved"]

\* The body of the closure of task i
RunClosure(d, i) ==
  LET c == d.tasks[i].task
  IN IF c.fn = "next"
     THEN IF d.cell THEN Deliver(d, Next_(c.v), d.tasks[i].at, "task") ELSE d
     ELSE IF c.fn = "flag" THEN d
     ELSE IF ~d.cell THEN [d EXCEPT !.panicked = TRUE]
          ELSE DropDelayObserver(
                 Deliver([d EXCEPT !.cell = FALSE], Terminated_(c.t), d.tasks[i].at, "task"))

\* Delay::subscribe has built the DelayObserver and handed it to the upstream
InitD ==
  /\ kind = "publish"
  /\ InitSubject /\ InitObservers /\ InitHandles /\ InitDelay /\ InitThreads /\ InitExtra

\* the upstream calls on_next on the DelayObserver it holds
UpNext(v) ==
  /\ ~panicked
  /\ dobs = "held"
  /\ emits < MaxEmits
  /\ emits' = emits + 1
  /\ DInstall(DelayObserverOnNext(DCur, v))
  /\ UNCHANGED <<xvars, cvars, svars, hvars, obsTerminated, now, outer, upTerminal, tasksAtDispose>>

\* the upstream calls on_terminal, which consumes the DelayObserver
UpTerminal(t) ==
  /\ ~panicked
  /\ dobs = "held"
  /\ upTerminal' = t
  /\ DInstall(DelayObserverOnTerminal(DCur, t))
  /\ UNCHANGED <<xvars, cvars, svars, hvars, obsTerminated, emits, now, outer, tasksAtDispose>>

\* the upstream lets go of the DelayObserver without a terminal
UpDrop ==
  /\ ~panicked
  /\ dobs = "held"
  /\ DInstall(DropDelayObserver(DCur))
  /\ UNCHANGED <<xvars, cvars, svars, hvars, obsTerminated, emits, now, outer, upTerminal, tasksAtDispose>>

\* the spawned task i wakes from its sleep and runs its closure
RunTask(i) ==
  /\ ~panicked
  /\ i \in DOMAIN tasks
  /\ tasks[i].state = "pending"
  /\ now >= tasks[i].due
  /\ DInstall(RunClosure([DCur EXCEPT !.tasks[i].state = "done"], i))
  /\ UNCHANGED <<xvars, cvars, svars, hvars, obsTerminated, emits, now, outer, upTerminal, tasksAtDispose>>

\* the caller disposes the Disposal Delay::subscribe returned, which is the
\* upstream's own
DisposeReturned ==
  /\ ~panicked
  /\ outer = "live"
  /\ outer' = "disposed"
  /\ tasksAtDispose' = Len(tasks)
  /\ UNCHANGED <<xvars, cvars, svars, ovars, hvars, now, dobs, cell, guard, tasks, disposals, upTerminal, requested, stamps>>

\* time passes
Tick ==
  /\ ~panicked
  /\ now < MaxTime
  /\ now' = now + 1
  /\ UNCHANGED <<xvars, cvars, svars, ovars, hvars, dobs, cell, guard, tasks, disposals, outer, upTerminal, requested, tasksAtDispose, stamps>>

NextD ==
  \/ \E v \in Val : UpNext(v)
  \/ \E t \in {"Completed", "Error"} : UpTerminal(t)
  \/ UpDrop
  \/ \E i \in 1..(MaxEmits + 1) : RunTask(i)
  \/ DisposeReturned
  \/ Tick

SpecD == InitD /\ [][NextD]_vars

\* ------------------------------------------------- delay under fairness
\* the upstream calls while the delay still fits into the time modelled; the
\* source counts, its n-th value is n
InTime == now + DelayTicks <= MaxTime
TimelyNext(v) == InTime /\ v = emits + 1 /\ UpNext(v)
TimelyTerminal(t) == InTime /\ UpTerminal(t)

NextL ==
  \/ \E v \in Val : TimelyNext(v)
  \/ \E t \in {"Completed", "Error"} : TimelyTerminal(t)
  \/ UpDrop
  \/ \E i \in 1..(MaxEmits + 1) : RunTask(i)
  \/ DisposeReturned
  \/ Tick

\* the timer advances, and a spawned task whose sleep is over is run
SpecL ==
  /\ InitD /\ [][NextL]_vars
  /\ WF_vars(Tick)
  /\ \A i \in 1..(MaxEmits + 1) : WF_vars(RunTask(i))

\* ------------------------------------------- delay on scheduler threads
\* The scheduled closures, and the Error arm of on_terminal, in the steps
\* between which another thread may run: a task is "locked" once its closure
\* holds the guard of the observer cell, "taken" once it has moved the
\* observer out of the cell, "inside" while it is in the downstream
\* observer's on_next or on_terminal

\* mutant: the observer cell has no lock
MutexFreeAlways(g) == TRUE

\* Mutex::lock returns once no guard is alive
MutexFree(g) == g = 0

\* the sleep of task i is over and a scheduler thread starts its closure
Due(i) ==
  /\ i \in DOMAIN tasks
  /\ tasks[i].state = "pending"
  /\ now >= tasks[i].due

DStep(d) ==
  /\ DInstall(d)
  /\ UNCHANGED <<xvars, cvars, svars, hvars, obsTerminated, emits, now, outer, upTerminal, tasksAtDispose>>

\* let mut observer = observer.lock().unwrap()
TaskLock(i) ==
  /\ ~panicked
  /\ Due(i)
  /\ tasks[i].task.fn = "next"
  /\ MutexFree(guard)
  /\ DStep([DCur EXCEPT !.guard = i, !.tasks[i].state = "locked"])

\* if let Some(observer) = observer.as_mut() { observer.on_next(value) }:
\* the call is entered, or the closure ends and its guard is dropped
TaskOnNext(i) ==
  /\ ~panicked
  /\ i \in DOMAIN tasks
  /\ tasks[i].state = "locked"
  /\ DStep(IF cell
           THEN Deliver([DCur EXCEPT !.tasks[i].state = "inside"],
                        Next_(tasks[i].task.v), tasks[i].at, "task")
           ELSE [DCur EXCEPT !.tasks[i].state = "done", !.guard = 0])

\* self.upstream_observer.lock().unwrap().take().unwrap(): the guard is a
\* temporary of this statement
TaskTake(i) ==
  /\ ~panicked
  /\ Due(i)
  /\ tasks[i].task.fn = "terminal"
  /\ MutexFree(guard)
  /\ DStep(IF ~cell THEN [DCur EXCEPT !.panicked = TRUE]
           ELSE [DCur EXCEPT !.cell = FALSE, !.tasks[i].state = "taken"])

\* Box::new(upstream_observer).on_terminal(terminated) is entered
TaskOnTerminal(i) ==
  /\ ~panicked
  /\ i \in DOMAIN tasks
  /\ tasks[i].state = "taken"
  /\ DStep(Deliver([DCur EXCEPT !.tasks[i].state = "inside"],
                   Terminated_(tasks[i].task.t), tasks[i].at, "task"))

\* the downstream observer returns: the value closure ends and drops its
\* guard, the Completed closure goes on to drop(self.disposals)
TaskReturn(i) ==
  /\ ~panicked
  /\ i \in DOMAIN tasks
  /\ tasks[i].state = "inside"
  /\ DStep(IF tasks[i].task.fn = "next"
           THEN [DCur EXCEPT !.tasks[i].state = "done", !.guard = 0]
           ELSE DropDelayObserver([DCur EXCEPT !.tasks[i].state = "done"]))

\* on_terminal, Error arm: self.upstream_observer.lock().unwrap().take().unwrap()
UpErrorTake ==
  /\ ~panicked
  /\ dobs = "held"
  /\ MutexFree(guard)
  /\ upTerminal' = "Error"
  /\ DInstall(IF ~cell THEN [DCur EXCEPT !.panicked = TRUE]
              ELSE [DCur EXCEPT !.cell = FALSE, !.dobs = "taken"])
  /\ UNCHANGED <<xvars, cvars, svars, hvars, obsTerminated, emits, now, outer, tasksAtDispose>>

\* Box::new(upstream_observer).on_terminal(terminated) is entered
UpErrorOnTerminal ==
  /\ ~panicked
  /\ dobs = "taken"
  /\ DStep(Deliver([DCur EXCEPT !.dobs = "inside"], Terminated_("Error"), now, "sync"))

\* the downstream observer returns and on_terminal ends, which drops self
UpErrorReturn ==
  /\ ~panicked
  /\ dobs = "inside"
  /\ DStep(DropDelayObserver(DCur))

NextM ==
  \/ \E v \in Val : UpNext(v)
  \/ UpTerminal("Completed")
  \/ UpErrorTake
  \/ UpErrorOnTerminal
  \/ UpErrorReturn
  \/ UpDrop
  \/ \E i \in 1..(MaxEmits + 1) : TaskLock(i)
  \/ \E i \in 1..(MaxEmits + 1) : TaskOnNext(i)
  \/ \E i \in 1..(MaxEmits + 1) : TaskTake(i)
  \/ \E i \in 1..(MaxEmits + 1) : TaskOnTerminal(i)
  \/ \E i \in 1..(MaxEmits + 1) : TaskReturn(i)
  \/ DisposeReturned
  \/ Tick

SpecM == InitD /\ [][NextM]_vars

\* ============================================================== scheduler
\* The delays the callers of schedule hand over
Delays == {None} \cup {Some(n) : n \in 1..DelayTicks}

\* let handle = scheduler.schedule(task, delay): the caller keeps the token
Schedule(delay) ==
  /\ ~panicked
  /\ emits < MaxEmits
  /\ emits' = emits + 1
  /\ LET d1 == TokioSchedulerSchedule(DCur, FlagClosure, delay)
     IN DInstall([d1 EXCEPT !.disposals = Append(@, Len(d1.tasks))])
  /\ UNCHANGED <<xvars, cvars, svars, hvars, obsTerminated, now, outer, upTerminal, tasksAtDispose>>

\* handle(): the caller invokes the token of task i, which consumes it
InvokeToken(i) ==
  /\ ~panicked
  /\ \E n \in DOMAIN disposals :
       /\ disposals[n] = i
       /\ disposals' = SubSeq(disposals, 1, n - 1) \o SubSeq(disposals, n + 1, Len(disposals))
  /\ tasks' = Abort(tasks, i)
  /\ UNCHANGED <<xvars, cvars, svars, ovars, hvars, now, dobs, cell, guard, outer, upTerminal, requested, tasksAtDispose, stamps>>

NextS ==
  \/ \E delay \in Delays : Schedule(delay)
  \/ \E i \in 1..MaxEmits : InvokeToken(i)
  \/ \E i \in 1..MaxEmits : RunTask(i)
  \/ Tick

SpecS == InitD /\ [][NextS]_vars

\* ---------------------------------------------- scheduler under fairness
\* schedule is called while the task's sleep still fits into the time modelled
TimelySchedule(delay) ==
  /\ now + (IF delay = None THEN 0 ELSE delay[1]) <= MaxTime
  /\ Schedule(delay)

NextT ==
  \/ \E delay \in Delays : TimelySchedule(delay)
  \/ \E i \in 1..MaxEmits : InvokeToken(i)
  \/ \E i \in 1..MaxEmits : RunTask(i)
  \/ Tick

\* tokio::spawn: the runtime's timer advances, and it polls every spawned
\* task whose sleep is over
SpecT ==
  /\ InitD /\ [][NextT]_vars
  /\ WF_vars(Tick)
  /\ \A i \in 1..MaxEmits : WF_vars(RunTask(i))

\* ============================================================ concurrency
\* The calls of the subject, its observers and its Subscriptions in the
\* steps between which another thread may run: every acquisition of a lock
\* (the registry's RwLock, an observer's terminated flag, the value cell)
\* is one step, and the read lock of BaseSubject::on is held from the
\* snapshot until the fan-out has visited every observer.

\* mutant: the value is left as it was
BehaviorSubjectOnStoreTerminalOnly(s, ev) ==
  IF ~IsTerminated(ev) THEN s
  ELSE IF s.behaviorTerminated # "None" THEN [s EXCEPT !.panicked = TRUE]
       ELSE [s EXCEPT !.behaviorTerminated = ev.t]

\* the first part of BehaviorSubject::on: store the value or the terminal
BehaviorSubjectOnStore(s, ev) ==
  IF ~IsTerminated(ev) THEN [s EXCEPT !.value = ev.v]
  ELSE IF s.behaviorTerminated # "None" THEN [s EXCEPT !.panicked = TRUE]
       ELSE [s EXCEPT !.behaviorTerminated = ev.t]

At(t, pc) == th[t].pc = pc
Goto(t, pc) == th' = [th EXCEPT ![t].pc = pc]

\* thread pub: subject.notify_if_unterminated(ev) up to the fan-out
PubStart(t, ev) ==
  /\ ~panicked
  /\ At(t, "idle")
  /\ emits < MaxEmits
  /\ IF BaseSubjectTerminated(Cur)
     THEN UNCHANGED <<ran, observers, terminated, value, behaviorTerminated, events,
                      obsTerminated, panicked, haction, counter, sent, th, emits>>
     ELSE /\ emits' = emits + 1
          /\ LET s1 == IF IsTerminated(ev) THEN BaseSubjectSetTerminated(Cur) ELSE Cur
             IN Install(IF kind = "behavior" THEN BehaviorSubjectOnStore(s1, ev) ELSE s1)
          /\ sent' = Append(sent, ev)
          /\ th' = [th EXCEPT ![t] = [Idle EXCEPT !.pc = "lock", !.ev = ev]]
  /\ UNCHANGED <<yvars, dvars, kind, hstate, hkind, subscribedAt, readers, react>>

\* mutant: the fan-out iterates over a copy of the registry and lets the
\* read lock go before it calls the observers
PubLockCopyOnly(t) ==
  /\ ~panicked
  /\ At(t, "lock")
  /\ readers' = readers
  /\ th' = [th EXCEPT ![t].pc = "fan", ![t].rest = {observers[k] : k \in DOMAIN observers}]
  /\ snapshot' = [o \in {observers[k] : k \in DOMAIN observers} |->
                    [log |-> events[o], terminated |-> obsTerminated[o]]]
  /\ UNCHANGED <<evars, kvars, bvars, inserts, ran, svars, ovars, hvars, dvars, react>>

\* BaseSubject::on: let observers = self.observers.read().unwrap()
PubLock(t) ==
  /\ ~panicked
  /\ At(t, "lock")
  /\ readers' = readers \cup {t}
  /\ th' = [th EXCEPT ![t].pc = "fan", ![t].rest = {observers[k] : k \in DOMAIN observers}]
  /\ snapshot' = [o \in {observers[k] : k \in DOMAIN observers} |->
                    [log |-> events[o], terminated |-> obsTerminated[o]]]
  /\ UNCHANGED <<evars, kvars, bvars, inserts, ran, svars, ovars, hvars, dvars, react>>

\* for_each: the next observer, and its notify_if_unterminated reads the flag
PubCheck(t) ==
  /\ ~panicked
  /\ At(t, "fan")
  /\ th[t].rest # {}
  /\ LET o == CHOOSE o \in th[t].rest : TRUE
     IN th' = [th EXCEPT ![t].rest = @ \ {o},
                        ![t].o = o,
                        ![t].pc = IF obsTerminated[o] THEN "fan" ELSE "o_set"]
  /\ UNCHANGED <<xvars, svars, ovars, hvars, dvars, readers, react>>

\* notify_if_unterminated: set_terminated(true) for a terminal
PubSet(t) ==
  /\ ~panicked
  /\ At(t, "o_set")
  /\ obsTerminated' = IF IsTerminated(th[t].ev)
                      THEN [obsTerminated EXCEPT ![th[t].o] = TRUE]
                      ELSE obsTerminated
  /\ Goto(t, "o_on")
  /\ UNCHANGED <<xvars, svars, events, panicked, emits, hvars, dvars, readers, react>>

\* notify_if_unterminated: self.on(event), the observer's handler runs; a
\* handler that unsubscribes calls the disposal of its own Subscription
PubDeliver(t) ==
  /\ ~panicked
  /\ At(t, "o_on")
  /\ LET o == th[t].o
         nested == react[o] = "unsub" /\ hstate[o] = "live" /\ ~IsTerminated(th[t].ev)
     IN /\ Install(CheckingObserverReceived(Cur, o, th[t].ev))
        /\ hstate' = IF nested THEN [hstate EXCEPT ![o] = "dropped"] ELSE hstate
        /\ th' = [th EXCEPT ![t].pc = IF nested THEN "d_remove" ELSE "fan",
                            ![t].ret = "fan"]
  /\ UNCHANGED <<yvars, dvars, kind, hkind, sent, subscribedAt, emits, readers, react>>

\* the fan-out is over and the read guard goes out of scope
PubUnlock(t) ==
  /\ ~panicked
  /\ At(t, "fan")
  /\ th[t].rest = {}
  /\ readers' = readers \ {t}
  /\ th' = [th EXCEPT ![t] = Idle]
  /\ snapshot' = << >>
  /\ UNCHANGED <<evars, kvars, bvars, inserts, ran, svars, ovars, hvars, dvars, react>>

\* thread usr: BehaviorSubject::subscribe reads the value and hands it to
\* the observer, which no other thread knows yet
SubscribeStart(o) ==
  /\ ~panicked
  /\ At("usr", "idle")
  /\ hstate[o] = "none"
  /\ Install(IF kind = "behavior" THEN NotifyIfUnterminated(Cur, o, Next_(value)) ELSE Cur)
  /\ subscribedAt' = [subscribedAt EXCEPT ![o] = Len(sent)]
  /\ th' = [th EXCEPT !["usr"] = [Idle EXCEPT !.pc = "s_insert", !.o = o]]
  /\ UNCHANGED <<yvars, dvars, kind, hstate, hkind, sent, emits, readers, react>>

\* BaseSubject::subscribe: self.observers.write().unwrap().insert(ptr, observer)
SubscribeInsert ==
  /\ ~panicked
  /\ At("usr", "s_insert")
  /\ readers = {}
  /\ LET o == th["usr"].o
         ptr == CHOOSE a \in Addr \ LiveAddr : TRUE
     IN /\ Install([BaseSubjectSubscribe(Cur, o, ptr) EXCEPT !.haction[o] = RemoveAction(ptr)])
        /\ hstate' = [hstate EXCEPT ![o] = "live"]
        /\ hkind' = [hkind EXCEPT ![o] = "Subscription"]
  /\ th' = [th EXCEPT !["usr"] = Idle]
  /\ UNCHANGED <<yvars, dvars, kind, sent, subscribedAt, emits, readers, react>>

\* thread usr: subscription.unsubscribe()
DisposeStart(o) ==
  /\ ~panicked
  /\ At("usr", "idle")
  /\ hstate[o] = "live"
  /\ hstate' = [hstate EXCEPT ![o] = "dropped"]
  /\ th' = [th EXCEPT !["usr"] = [Idle EXCEPT !.pc = "d_remove", !.o = o]]
  /\ UNCHANGED <<xvars, svars, ovars, hkind, haction, counter, dvars, readers, react>>

\* the closure of Subscription::new, disposal_action():
\* self.observers.write().unwrap().remove(&ptr)
DisposeRemove(t) ==
  /\ ~panicked
  /\ At(t, "d_remove")
  /\ readers = {}
  /\ Install(CallAction([Cur EXCEPT !.haction[th[t].o] = NoAction], haction[th[t].o]))
  /\ Goto(t, "d_check")
  /\ UNCHANGED <<yvars, dvars, kind, hstate, hkind, sent, subscribedAt, emits, readers, react>>

\* the closure of Subscription::new: if !observer.terminated()
DisposeCheck(t) ==
  /\ ~panicked
  /\ At(t, "d_check")
  /\ Goto(t, IF obsTerminated[th[t].o] THEN th[t].ret ELSE "d_check2")
  /\ UNCHANGED <<xvars, svars, ovars, hvars, dvars, readers, react>>

\* notify_if_unterminated(Unsubscribed) reads the flag again
DisposeCheck2(t) ==
  /\ ~panicked
  /\ At(t, "d_check2")
  /\ Goto(t, IF obsTerminated[th[t].o] THEN th[t].ret ELSE "d_set")
  /\ UNCHANGED <<xvars, svars, ovars, hvars, dvars, readers, react>>

\* notify_if_unterminated(Unsubscribed): set_terminated(true)
DisposeSet(t) ==
  /\ ~panicked
  /\ At(t, "d_set")
  /\ obsTerminated' = [obsTerminated EXCEPT ![th[t].o] = TRUE]
  /\ Goto(t, "d_on")
  /\ UNCHANGED <<xvars, svars, events, panicked, emits, hvars, dvars, readers, react>>

\* notify_if_unterminated(Unsubscribed): self.on(event)
DisposeDeliver(t) ==
  /\ ~panicked
  /\ At(t, "d_on")
  /\ Install(CheckingObserverReceived(Cur, th[t].o, Terminated_("Unsubscribed")))
  /\ Goto(t, th[t].ret)
  /\ UNCHANGED <<yvars, dvars, kind, hstate, hkind, sent, subscribedAt, emits, readers, react>>

\* The observer thread usr subscribes and disposes; the other observers have
\* subscribed, one after the other, before the threads start
Racer == 1
Settled == Obs \ {Racer}

InitC ==
  /\ kind \in {"publish", "behavior"}
  /\ observers = [k \in Settled |-> k]
  /\ terminated = FALSE
  /\ value = Seed
  /\ behaviorTerminated = "None"
  /\ sent = << >>
  /\ subscribedAt = [o \in Obs |-> 0]
  /\ events = [o \in Obs |-> IF o \in Settled /\ kind = "behavior"
                              THEN <<Next_(Seed)>> ELSE << >>]
  /\ obsTerminated = [o \in Obs |-> FALSE]
  /\ panicked = FALSE
  /\ emits = 0
  /\ hstate = [h \in Handle |-> IF h \in Settled THEN "live" ELSE "none"]
  /\ hkind = [h \in Handle |-> IF h \in Settled THEN "Subscription" ELSE "Disposal"]
  /\ haction = [h \in Handle |-> IF h \in Settled THEN RemoveAction(h) ELSE NoAction]
  /\ counter = [h \in Handle |-> 0]
  /\ InitDelay
  /\ InitExtra
  /\ th = [t \in Threads |-> Idle]
  /\ readers = {}
  /\ react \in {[o \in Obs |-> "log"],
               [o \in Obs |-> IF o = Racer THEN "unsub" ELSE "log"]}

NextC ==
  \/ \E ev \in Event : PubStart("pub", ev)
  \/ PubLock("pub")
  \/ PubCheck("pub")
  \/ PubSet("pub")
  \/ PubDeliver("pub")
  \/ PubUnlock("pub")
  \/ SubscribeStart(Racer)
  \/ SubscribeInsert
  \/ DisposeStart(Racer)
  \/ \E t \in Threads : DisposeRemove(t)
  \/ \E t \in Threads : DisposeCheck(t)
  \/ \E t \in Threads : DisposeCheck2(t)
  \/ \E t \in Threads : DisposeSet(t)
  \/ \E t \in Threads : DisposeDeliver(t)

SpecC == InitC /\ [][NextC]_vars

\* ------------------------------------------------ concurrent publishers
\* Both threads call notify_if_unterminated on the subject; every observer
\* has subscribed before and none is disposed
InitP ==
  /\ InitC
  /\ kind = "behavior"
  /\ react = [o \in Obs |-> "log"]

NextP ==
  \/ \E t \in Threads, ev \in Event : PubStart(t, ev)
  \/ \E t \in Threads : PubLock(t)
  \/ \E t \in Threads : PubCheck(t)
  \/ \E t \in Threads : PubSet(t)
  \/ \E t \in Threads : PubDeliver(t)
  \/ \E t \in Threads : PubUnlock(t)

SpecP == InitP /\ [][NextP]_vars

\* ======================================================= chained subjects
\* subject_a.subscribe(subject_b): the modelled subject is subject_b, the
\* observer of subject_a; `sent` holds the events subject_a has accepted

\* let subscription1 = subject_a.clone().subscribe(subject_b.clone())
LinkSubjects ==
  /\ ~panicked
  /\ up.link = "none"
  /\ Install(IF kind = "behavior"
             THEN SubjectNotifyIfUnterminated(Cur, Next_(up.value))
             ELSE Cur)
  /\ up' = [up EXCEPT !.link = "live", !.linkedAt = Len(sent),
                      !.before = {o \in Obs : hstate[o] # "none"}]
  /\ UNCHANGED <<evars, kvars, snapshot, inserts, cvars, dvars, kind, hstate, hkind, sent,
                 subscribedAt, emits>>

\* subject_a.notify_if_unterminated(event): subject_a stores and fans out
\* to subject_b while subject_b is registered
UpNotify(ev) ==
  /\ ~panicked
  /\ emits < MaxEmits
  /\ emits' = emits + 1
  /\ IF BaseSubjectTerminated(up)
     THEN UNCHANGED <<up, sent, observers, terminated, value, behaviorTerminated,
                      events, obsTerminated, panicked, haction, counter, ran>>
     ELSE LET up1 == IF IsTerminated(ev) THEN BaseSubjectSetTerminated(up) ELSE up
              up2 == IF kind = "behavior" THEN BehaviorSubjectOnStore(up1, ev) ELSE up1
              s1 == IF up.link = "live" THEN SubjectNotifyIfUnterminated(Cur, ev) ELSE Cur
          IN /\ up' = up2
             /\ Install([s1 EXCEPT !.panicked = @ \/ up2.panicked])
             /\ sent' = Append(sent, ev)
  /\ UNCHANGED <<evars, kvars, snapshot, inserts, cvars, dvars, kind, hstate, hkind, subscribedAt>>

\* subscription1.unsubscribe() or its drop: subject_b leaves subject_a's
\* registry and, unterminated, is handed Unsubscribed
Unlink ==
  /\ ~panicked
  /\ up.link = "live"
  /\ up' = [up EXCEPT !.link = "dropped"]
  /\ Install(IF ~BaseSubjectTerminated(Cur)
             THEN SubjectNotifyIfUnterminated(Cur, Terminated_("Unsubscribed"))
             ELSE Cur)
  /\ UNCHANGED <<evars, kvars, snapshot, inserts, cvars, dvars, kind, hstate, hkind, sent,
                 subscribedAt, emits>>

\* the observers of subject_b: two, which subscribe one after the other
ChainObs == {o \in Obs : o <= 2}
Earlier(o) == \A p \in ChainObs : p < o => hstate[p] # "none"

NextB ==
  \/ LinkSubjects
  \/ \E ev \in Event : UpNotify(ev)
  \/ Unlink
  \/ \E o \in ChainObs : Earlier(o) /\ Subscribe(o)
  \/ \E o \in ChainObs : Unsubscribe(o)

SpecB == Init /\ [][NextB]_vars

\* ======================================================= event transforms
\* An Event, a transform and the function handed to it
InitE ==
  /\ kind = "publish"
  /\ InitSubject /\ InitObservers /\ InitHandles /\ InitDelay /\ InitThreads
  /\ snapshot = << >> /\ InitInserted /\ InitUp /\ InitCold /\ InitChain
  /\ mapIn \in PayloadEvent
  /\ \/ mapOp = "map_value" /\ mapFn \in [Val -> Out]
     \/ mapOp = "map_error" /\ mapFn \in [Err -> Out]
  /\ mapOut = NoPayloadEvent

\* event.map_value(f)
MapValue ==
  /\ mapOp = "map_value"
  /\ mapOut = NoPayloadEvent
  /\ mapOut' = EventMapValue(mapIn, mapFn)
  /\ UNCHANGED <<svars, ovars, hvars, dvars, cvars, bvars, kvars, snapshot, inserts, ran, mapIn, mapOp, mapFn>>

\* event.map_error(f)
MapError ==
  /\ mapOp = "map_error"
  /\ mapOut = NoPayloadEvent
  /\ mapOut' = EventMapError(mapIn, mapFn)
  /\ UNCHANGED <<svars, ovars, hvars, dvars, cvars, bvars, kvars, snapshot, inserts, ran, mapIn, mapOp, mapFn>>

NextE ==
  \/ MapValue
  \/ MapError

SpecE == InitE /\ [][NextE]_vars

\* ======================================================= cold observables
\* Create::new(handler), Just::new(value), and either with .map(f). The
\* handler is an FnMut that counts its on_next calls in a captured variable:
\*   move |mut observer| { while n < nexts { n += 1; observer.on_next(n); }
\*                         observer.on_terminal(term); Subscriber::new_empty() }
\* with the last call left out when term is "None".
ColdObservables ==
  {[ColdNone EXCEPT !.source = "create", !.nexts = k, !.term = t,
                    !.mapped = m, !.f = g] :
     k \in 0..NumVals, t \in {"None", "Completed", "Error"},
     m \in BOOLEAN, g \in [Val -> Out]}
  \cup
  {[ColdNone EXCEPT !.source = "just", !.value = v, !.mapped = m, !.f = g] :
     v \in Val, m \in BOOLEAN, g \in [Val -> Out]}

\* mutant: the clone's handler refers to the captured state of the original
CreateCloneShared(c, i) == [c EXCEPT !.ref[i] = 0]

\* Clone for Create: subscribe_handler.clone() copies what the closure
\* captured; subscription i runs on copy i
CreateClone(c, i) == [c EXCEPT !.captured[i] = c.captured[0], !.ref[i] = i]

\* AnonymousObserver::on of the observer Map::subscribe builds: the closure
\* |event| observer.notify_if_unterminated(event.map_value(|v| mapper(v)))
MapObserverOn(s, o, ev, f) == NotifyIfUnterminated(s, o, EventMapValue(ev, f))

\* the observer the source was handed is called with an event:
\* CreateObserver::on_next / on_terminal and Just::subscribe call it directly
ColdDeliver(s, c, o, ev) ==
  IF c.mapped THEN MapObserverOn(s, o, ev, c.f)
  ELSE CheckingObserverReceived(s, o, ev)

\* the handler of subscription i has another value to emit
ColdHasNext(c, i) ==
  IF c.source = "create" THEN c.captured[c.ref[i]] < c.nexts
  ELSE c.pos[i] = 0

\* the terminal the source emits after its values
ColdTerminal(c) ==
  IF c.source = "just" THEN EventTerminated("Completed", 0)
  ELSE IF c.term = "Error" THEN EventTerminated("Error", 1)
  ELSE EventTerminated(c.term, 0)

\* observable.clone().subscribe(observer): the call starts
ColdSubscribe(i) ==
  /\ ~panicked
  /\ cold.source # "none" /\ cold.pc[i] = "none"
  /\ cold' = [(IF cold.source = "create" THEN CreateClone(cold, i) ELSE cold)
                EXCEPT !.pc[i] = "body"]
  /\ UNCHANGED <<svars, ovars, hvars, dvars, cvars, evars, snapshot, inserts, bvars, chain, ran>>

\* the handler's n += 1; observer.on_next(n), or Just's
\* observer.on(Event::Next(&self.value))
ColdNext(i) ==
  /\ ~panicked
  /\ cold.pc[i] = "body" /\ ColdHasNext(cold, i)
  /\ LET n == cold.captured[cold.ref[i]]
         ev == IF cold.source = "create" THEN EventNext(n + 1)
               ELSE EventNext(cold.value)
     IN /\ cold' = [cold EXCEPT !.captured[cold.ref[i]] =
                                   IF cold.source = "create" THEN n + 1 ELSE @,
                                 !.pos[i] = @ + 1]
        /\ Install(ColdDeliver(Cur, cold, i, ev))
  /\ UNCHANGED <<evars, snapshot, inserts, bvars, chain, cvars, dvars, kind, hstate, hkind,
                 sent, subscribedAt, emits>>

\* the handler's observer.on_terminal(term) and its return of
\* Subscriber::new_empty(), or Just's observer.on(Completed) and its return
\* of NonCancellable
ColdFinish(i) ==
  /\ ~panicked
  /\ cold.pc[i] = "body" /\ ~ColdHasNext(cold, i)
  /\ LET silent == cold.source = "create" /\ cold.term = "None"
     IN /\ cold' = [cold EXCEPT !.pc[i] = "done",
                                 !.pos[i] = IF silent THEN @ ELSE @ + 1]
        /\ Install(IF silent THEN Cur
                   ELSE ColdDeliver(Cur, cold, i, ColdTerminal(cold)))
  /\ UNCHANGED <<evars, snapshot, inserts, bvars, chain, cvars, dvars, kind, hstate, hkind,
                 sent, subscribedAt, emits>>

\* the handle subscribe returned is unsubscribed or dropped: Drop for
\* Subscriber finds dispose None, NonCancellable::cancel has an empty body
ColdDispose(i) ==
  /\ ~panicked
  /\ cold.pc[i] = "done"
  /\ cold' = [cold EXCEPT !.pc[i] = "disposed"]
  /\ UNCHANGED <<svars, ovars, hvars, dvars, cvars, evars, snapshot, inserts, bvars, chain, ran>>

InitK ==
  /\ kind = "publish"
  /\ InitSubject /\ InitObservers /\ InitHandles /\ InitDelay /\ InitThreads
  /\ InitEvent /\ snapshot = << >> /\ InitInserted /\ InitUp
  /\ cold \in ColdObservables
  /\ InitChain

NextK ==
  \/ \E i \in Obs : ColdSubscribe(i)
  \/ \E i \in Obs : ColdNext(i)
  \/ \E i \in Obs : ColdFinish(i)
  \/ \E i \in Obs : ColdDispose(i)

SpecK == InitK /\ [][NextK]_vars

\* ======================================================= operator chains
\* source.map(fs[1]) ... .map(fs[n]).subscribe(checker): each Map::subscribe
\* wraps the observer it is handed in an AnonymousObserver and subscribes the
\* wrapper to its source, so the source holds wrapper 1, wrapper l calls
\* wrapper l + 1, and wrapper n calls the checker. The source is the one of
\* the tests of Map (it notifies the observer and returns
\* Subscription::new_non_disposal_action(observer)) or one that returns
\* Subscription::new(observer, disposal_action), as the subjects do.
MaxDepth == 2

Mappers ==
  {[v \in Out |-> (v + k) % (NumVals + 1)] : k \in 0..1} \cup {[v \in Out |-> 0]}

Chains ==
  {[ChainNone EXCEPT !.fs = q] :
     q \in UNION {[1..n -> Mappers] : n \in 1..MaxDepth}}

\* the subject state and the wrappers' flags, as one record
ChainCur == [s |-> Cur, flag |-> chain.flag]

\* mutant: a wrapper that is handed a terminal sets its flag and keeps the
\* terminal to itself
WrapperNotifyKeepsTerminal(c, o, l, ev, fs) ==
  IF c.flag[o][l] THEN c
  ELSE IF IsTerminated(ev) THEN [c EXCEPT !.flag[o][l] = TRUE]
  ELSE [c EXCEPT !.s = MapObserverOn(c.s, o, ev, fs[l])]

\* notify_if_unterminated on wrapper l of subscription o: the wrapper's own
\* flag is checked and set, and its closure hands the mapped event on
RECURSIVE WrapperNotify(_, _, _, _, _)
WrapperNotify(c, o, l, ev, fs) ==
  IF c.flag[o][l] THEN c
  ELSE LET c1 == IF IsTerminated(ev) THEN [c EXCEPT !.flag[o][l] = TRUE] ELSE c
       IN IF l = Len(fs) THEN [c1 EXCEPT !.s = MapObserverOn(c1.s, o, ev, fs[l])]
          ELSE WrapperNotify(c1, o, l + 1, EventMapValue(ev, fs[l]), fs)

\* the closure of Subscription::new / new_non_disposal_action around
\* wrapper 1
ChainDisposal(c, o, act, fs) ==
  LET c1 == [c EXCEPT !.s = CallAction(c.s, act)]
  IN IF ~c1.flag[o][1]
     THEN WrapperNotify(c1, o, 1, EventTerminated("Unsubscribed", 0), fs)
     ELSE c1

\* what a source may hand its observer
SourceEvent ==
  {EventNext(v) : v \in Val}
    \cup {EventTerminated("Completed", 0)} \cup {EventTerminated("Error", e) : e \in Err}

SourceTerminated(o) ==
  chain.script[o] # << >> /\ IsTerminated(chain.script[o][Len(chain.script[o])])

\* Map::subscribe down to the source's subscribe, which returns a
\* Subscription of kind k
ChainSubscribe(o, k) ==
  /\ ~panicked
  /\ hstate[o] = "none"
  /\ hstate' = [hstate EXCEPT ![o] = "live"]
  /\ hkind' = [hkind EXCEPT ![o] = k]
  /\ Install([Cur EXCEPT !.haction[o] = NewAction(o, k)])
  /\ chain' = [chain EXCEPT !.flag[o] = [l \in 1..Len(chain.fs) |-> FALSE]]
  /\ UNCHANGED <<evars, snapshot, inserts, bvars, cold, cvars, dvars, kind, sent,
                 subscribedAt, emits>>

\* the source calls observer.notify_if_unterminated(event)
ChainNotify(o, ev) ==
  /\ ~panicked
  /\ hstate[o] = "live"
  /\ emits < MaxEmits
  /\ emits' = emits + 1
  /\ LET c == WrapperNotify(ChainCur, o, 1, ev, chain.fs)
     IN /\ Install(c.s)
        /\ chain' = [chain EXCEPT !.flag = c.flag,
                                  !.script[o] = IF SourceTerminated(o) THEN @
                                                ELSE Append(@, ev)]
  /\ UNCHANGED <<evars, snapshot, inserts, bvars, cold, cvars, dvars, kind, hstate,
                 hkind, sent, subscribedAt>>

\* subscription.unsubscribe(), or the Subscription is dropped
ChainDispose(o) ==
  /\ ~panicked
  /\ hstate[o] = "live"
  /\ hstate' = [hstate EXCEPT ![o] = "dropped"]
  /\ LET c == ChainDisposal([ChainCur EXCEPT !.s.haction[o] = NoAction], o,
                            haction[o], chain.fs)
     IN /\ Install(c.s)
        /\ chain' = [chain EXCEPT !.flag = c.flag]
  /\ UNCHANGED <<evars, snapshot, inserts, bvars, cold, cvars, dvars, kind, hkind,
                 sent, subscribedAt, emits>>

InitG ==
  /\ kind = "publish"
  /\ InitSubject /\ InitObservers /\ InitHandles /\ InitDelay /\ InitThreads
  /\ InitEvent /\ snapshot = << >> /\ InitInserted /\ InitUp /\ InitCold
  /\ chain \in Chains

NextG ==
  \/ \E o \in ChainObs, k \in SubscriptionKinds : ChainSubscribe(o, k)
  \/ \E o \in ChainObs, ev \in SourceEvent : ChainNotify(o, ev)
  \/ \E o \in ChainObs : ChainDispose(o)

SpecG == InitG /\ [][NextG]_vars

\* ================================================================ claims
Last(q) == q[Len(q)]
Unterminated(o) == Len(events[o]) = 0 \/ ~IsTerminated(Last(events[o]))
Subscribed(o) == hstate[o] = "live" /\ hkind[o] = "Subscription"
Disposing(o) == hstate[o] = "live" /\ hkind[o] \in SubscriptionKinds /\ hstate'[o] = "dropped"

\* the BehaviorSubject's current value after the first n pushed events
RECURSIVE ValueAt(_)
ValueAt(n) ==
  IF n = 0 THEN Seed
  ELSE IF IsTerminated(sent[n]) THEN ValueAt(n - 1) ELSE sent[n].v

\* C1: whatever is pushed into the subject, and however subscribe and
\* unsubscribe/drop interleave with it, no observer is handed an event after
\* its terminal (no panic of the checking observer), so each log holds at
\* most one terminal event and that event is its last entry.
C1_AtMostOneTerminal ==
  /\ ~panicked
  /\ \A o \in Obs : \A i \in 1..Len(events[o]) :
       IsTerminated(events[o][i]) => i = Len(events[o])

C1_Witness ==
  \E o \in Obs :
    /\ hstate[o] = "dropped"
    /\ Len(events[o]) >= 1 /\ Last(events[o]) = Terminated_("Completed")
    /\ sent = <<Terminated_("Completed")>> /\ emits = 2

\* C2: disposing a Subscription (built by either constructor) whose observer
\* has not seen a terminal appends exactly one event to the observer's log,
\* and that event is Terminated(Unsubscribed); the entries before it stay.
C2_CancelSynthesized ==
  [][\A o \in Obs : (Disposing(o) /\ Unterminated(o)) =>
        /\ events'[o] = Append(events[o], Terminated_("Unsubscribed"))
        /\ obsTerminated'[o]]_vars

C2_Witness ==
  \E o, p \in Obs :
    /\ hstate[o] = "dropped" /\ hkind[o] = "Subscription"
    /\ hstate[p] = "dropped" /\ hkind[p] = "SubscriptionNonDisposalAction"
    /\ events[o] = <<Next_(1), Terminated_("Unsubscribed")>>
    /\ events[p] = <<Next_(2), Terminated_("Unsubscribed")>>

\* C3: the cleanup action of a Disposal, Subscriber, AnonymousCancellable or
\* Subscription has not run while the handle is alive, has run exactly once
\* when the handle is gone (explicit call followed by the drop of self, or
\* the drop alone), and its counter never exceeds 1.
CountedKinds == {"Disposal", "Subscriber", "AnonymousCancellable", "Subscription"}

C3_CleanupExactlyOnce ==
  \A h \in Handle :
    /\ counter[h] <= 1
    /\ hstate[h] # "dropped" => counter[h] = 0
    /\ (hstate[h] = "dropped" /\ hkind[h] \in CountedKinds) => counter[h] = 1

C3_Witness ==
  \E h, g \in Handle :
    /\ hstate[h] = "dropped" /\ hkind[h] = "AnonymousCancellable" /\ counter[h] = 1
    /\ hstate[g] = "dropped" /\ hkind[g] = "Subscription" /\ counter[g] = 1

\* C4: on a plain subject, every observer subscribed before the first event
\* and still subscribed has logged exactly the accepted events, in order:
\* the Next values followed by the terminal, the same for all of them.
C4_FanOut ==
  kind = "publish" =>
    \A o \in Obs : (Subscribed(o) /\ subscribedAt[o] = 0) =>
      events[o] = sent

C4_Witness ==
  /\ kind = "publish"
  /\ sent = <<Next_(1), Terminated_("Completed")>>
  /\ \A o \in Obs : Subscribed(o) /\ subscribedAt[o] = 0 /\ events[o] = sent

\* C5: an observer that subscribes to a BehaviorSubject before it terminated
\* has logged Next(current value at subscribe time) followed by every event
\* accepted after it subscribed, each once.
C5_BehaviorReplay ==
  kind = "behavior" =>
    \A o \in Obs :
      (/\ Subscribed(o)
       /\ \A i \in 1..subscribedAt[o] : ~IsTerminated(sent[i])) =>
      events[o] = <<Next_(ValueAt(subscribedAt[o]))>> \o
                  SubSeq(sent, subscribedAt[o] + 1, Len(sent))

C5_Witness ==
  /\ kind = "behavior"
  /\ sent = <<Next_(1), Terminated_("Completed")>>
  /\ Subscribed(1) /\ subscribedAt[1] = 0
  /\ Subscribed(2) /\ subscribedAt[2] = 1
  /\ events[1] = <<Next_(0), Next_(1), Terminated_("Completed")>>
  /\ events[2] = <<Next_(1), Terminated_("Completed")>>

\* C6: every live subject Subscription owns the registry entry under its own
\* key; disposing it removes exactly that entry and changes no other
\* observer, and an accepted event is still logged by every other live
\* observer, also when the observers hold equal contents.
C6_DisposeRemovesOnlyOwnEntry ==
  /\ [](\A o \in Obs : Subscribed(o) =>
          /\ haction[o].fn = "remove"
          /\ haction[o].arg \in DOMAIN observers
          /\ observers[haction[o].arg] = o)
  /\ [][\A o \in Obs : Disposing(o) =>
          /\ observers' = MapRemove(observers, haction[o].arg)
          /\ \A p \in Obs \ {o} :
               events'[p] = events[p] /\ obsTerminated'[p] = obsTerminated[p]]_vars
  /\ [][sent' # sent =>
          \A p \in Obs : (Subscribed(p) /\ Unterminated(p)) =>
             events'[p] = Append(events[p], Last(sent'))]_vars

C6_Witness ==
  \E o, p \in Obs :
    /\ o # p
    /\ hstate[o] = "dropped" /\ Subscribed(p)
    /\ events[o] = <<Next_(1), Terminated_("Unsubscribed")>>
    /\ events[p] = <<Next_(1), Next_(2)>>

\* C7: the disposal step keeps what the observer had logged and adds at most
\* the one Unsubscribed; once the Subscription is disposed the observer's log
\* never changes again, whatever is pushed into the subject.
C7_NoDeliveryAfterDispose ==
  /\ [][\A o \in Obs : Disposing(o) =>
          events'[o] = IF Unterminated(o)
                       THEN Append(events[o], Terminated_("Unsubscribed"))
                       ELSE events[o]]_vars
  /\ [][\A o \in Obs : hstate[o] = "dropped" => events'[o] = events[o]]_vars

C7_Witness ==
  \E o \in Obs :
    /\ hstate[o] = "dropped"
    /\ events[o] = <<Next_(1), Terminated_("Unsubscribed")>>
    /\ sent = <<Next_(1), Next_(2)>>

\* ---------------------------------------------------------- delay claims
DownLog == events[Downstream]
Delayed(ev) == ev.kind = "Next" \/ ev = Terminated_("Completed")
UpstreamCall == emits' # emits \/ upTerminal' # upTerminal
Ran(i) == tasks[i].state = "pending" /\ tasks'[i].state = "done"

\* C8: Delay hands a Next or a Completed to the downstream observer only
\* from the scheduled task, never inside the upstream's on_next/on_terminal
\* call, and never before the configured delay has passed since the event
\* came from upstream; so while no time has passed since subscribe, a
\* source that emitted only Next/Completed leaves the log empty.
C8_DelayedDelivery ==
  /\ [](\A i \in 1..Len(DownLog) :
          Delayed(DownLog[i]) =>
            /\ stamps[i].via = "task"
            /\ stamps[i].at >= stamps[i].recvAt + DelayTicks)
  /\ [](now < DelayTicks /\ upTerminal # "Error" => DownLog = << >>)
  /\ [][UpstreamCall /\ upTerminal' # "Error" => events' = events]_vars
  /\ [][(\A i \in DOMAIN tasks : ~Ran(i)) /\ upTerminal' # "Error" => events' = events]_vars

C8_Witness ==
  /\ DownLog = <<Next_(1), Terminated_("Completed")>>
  /\ tasks[1].at = 0 /\ tasks[2].at = 0
  /\ stamps[1].at >= DelayTicks

C10_DisposeCancelsPending ==
  /\ [][outer = "live" /\ outer' = "disposed" => disposals' = << >>]_vars
  /\ [][outer = "disposed" =>
          \A i \in 1..tasksAtDispose : Ran(i) => events' = events]_vars

\* C11: the downstream log of one Delay subscription is in receive order,
\* whichever due task the scheduler runs first: an entry never stands before
\* an entry that came from upstream earlier, and Completed is the last entry.
C11_ReceiveOrder ==
  /\ \A i, j \in 1..Len(DownLog) :
       i < j => stamps[i].recvAt <= stamps[j].recvAt
  /\ \A i \in 1..Len(DownLog) :
       DownLog[i] = Terminated_("Completed") => i = Len(DownLog)

\* ------------------------------------------------------ scheduler claims
Held(i) == \E n \in DOMAIN disposals : disposals[n] = i
Invoked(i) == Held(i) /\ ~(\E n \in DOMAIN disposals' : disposals'[n] = i)

\* C12: when the token of a task is invoked while the task has not started,
\* the task is cancelled in that call and its body never runs afterwards,
\* however much time passes, for a task scheduled with a delay and for one
\* scheduled with none.
C12_CancelBeforeStart ==
  /\ [][\A i \in DOMAIN tasks :
          (Invoked(i) /\ tasks[i].state = "pending") => tasks'[i].state = "aborted"]_vars
  /\ [][\A i \in DOMAIN tasks :
          tasks[i].state = "aborted" => tasks'[i].state = "aborted"]_vars
  /\ [][\A i \in DOMAIN tasks :
          Ran(i) => Held(i) /\ ~Invoked(i)]_vars

C12_Witness ==
  /\ Len(tasks) = 2
  /\ requested[1] = None /\ tasks[1].state = "aborted"
  /\ requested[2] = Some(DelayTicks) /\ tasks[2].state = "aborted"
  /\ now > tasks[2].at + DelayTicks

\* C13: a task scheduled with Some(d) does not start before d has passed
\* since the schedule call; a task scheduled with None may start in the
\* state the schedule call leaves, with the clock where it was.
C13_DelayRespected ==
  /\ [][\A i \in DOMAIN tasks :
          (Ran(i) /\ requested[i] # None) => now >= tasks[i].at + requested[i][1]]_vars
  /\ [](\A i \in DOMAIN tasks :
          (requested[i] = None /\ tasks[i].state = "pending") => ENABLED RunTask(i))

C13_Witness ==
  /\ Len(tasks) = 2
  /\ requested[1] = Some(DelayTicks) /\ tasks[1].state = "done"
  /\ requested[2] = None /\ tasks[2].state = "done"
  /\ now = tasks[2].at

\* ---------------------------------------------------- late subscription
Subscribing(o) == hstate[o] = "none" /\ hstate'[o] = "live"

\* C14: an observer that subscribes to a BehaviorSubject which has taken a
\* terminal is handed that terminal and nothing else, and the registry does
\* not gain an entry for it.
C14_TerminalReplay ==
  [][\A o \in Obs :
       (kind = "behavior" /\ Closed /\ Subscribing(o)) =>
         /\ events'[o] = <<Last(sent)>>
         /\ observers' = observers]_vars

\* C15: an observer that subscribes to a plain subject which has taken a
\* terminal is not registered and is handed no event: the subscribe call
\* leaves the registry and the observer's log as they were.
C15_LateSubscribeRegistersNothing ==
  [][\A o \in Obs :
       (kind = "publish" /\ Closed /\ Subscribing(o)) =>
         /\ observers' = observers
         /\ events'[o] = events[o]]_vars

\* C16: once the subject has accepted a terminal, an event pushed into it
\* through notify_if_unterminated is not accepted: no observer's log or
\* flag changes, and the subject's value, remembered terminal and
\* terminated flag stay as they were.
C16_NothingAcceptedAfterTerminal ==
  /\ [](Closed => terminated)
  /\ [][(Closed /\ emits' # emits) =>
          /\ events' = events /\ obsTerminated' = obsTerminated
          /\ value' = value /\ behaviorTerminated' = behaviorTerminated
          /\ terminated' = terminated /\ observers' = observers
          /\ ~panicked']_vars

C16_Witness ==
  /\ kind = "behavior"
  /\ sent = <<Terminated_("Error")>> /\ emits = 2
  /\ value = Seed /\ behaviorTerminated = "Error"
  /\ \A o \in Obs : Subscribed(o) /\ events[o] = <<Next_(Seed), Terminated_("Error")>>

\* ---------------------------------------------------- protocol violation
\* C17: an event handed to the subject after the subject has been handed a
\* terminal is a protocol violation and makes the offending call panic.
C17_ViolationPanics ==
  [][((\E i \in DOMAIN sent : IsTerminated(sent[i])) /\ emits' # emits) =>
       panicked']_vars

\* ----------------------------------------------------- concurrency claims
Stepped(t) == th'[t] # th[t]
HandsTerminal(t) ==
  \/ th[t].pc = "d_on"
  \/ th[t].pc = "o_on" /\ IsTerminated(th[t].ev)
Quiet == \A t \in Threads : th[t].pc = "idle"

\* C18: an observer that disposes its own Subscription from inside its
\* handler during the fan-out does not deadlock: the thread that asks for
\* the registry's exclusive lock does not itself hold the registry's shared
\* lock, so the nested call and the fan-out can both return.
C18_NoSelfDeadlock ==
  \A t \in Threads : th[t].pc = "d_remove" => t \notin readers

\* C19: whenever a thread hands an observer a terminal (the fan-out of a
\* terminal, or the Unsubscribed of a disposal), the observer has not been
\* handed a terminal before, however the two threads' reads of the flag,
\* writes of the flag and deliveries interleave.
C19_OneTerminalUnderRace ==
  /\ [][\A t \in Threads :
          (Stepped(t) /\ HandsTerminal(t)) => Unterminated(th[t].o)]_vars
  /\ [](~panicked)
  /\ [](\A o \in Obs : \A i \in 1..Len(events[o]) :
          IsTerminated(events[o][i]) => i = Len(events[o]))

C19_Witness ==
  /\ th["usr"].pc = "d_remove" /\ th["usr"].o = Racer
  /\ "pub" \in readers /\ th["pub"].ev = Terminated_("Completed")
  /\ events[Racer] = <<Next_(1), Terminated_("Completed")>>

\* C20: when both threads are outside any call, an observer that subscribed
\* to the BehaviorSubject while values were pushed has logged the value it
\* was sent at subscribe time followed by exactly the values the subject
\* accepted after that value was read, each once.
C20_SnapshotBoundary ==
  (/\ kind = "behavior"
   /\ Quiet
   /\ Subscribed(Racer)
   /\ \A i \in DOMAIN sent : ~IsTerminated(sent[i])) =>
    events[Racer] = <<Next_(ValueAt(subscribedAt[Racer]))>> \o
                    SubSeq(sent, subscribedAt[Racer] + 1, Len(sent))

\* --------------------------------------------------------- event transforms
Mapped == mapOut # NoPayloadEvent

\* C26: map_value and map_error always return an event of the same shape:
\* map_value(f) turns Next(v) into Next(f(v)) and gives every terminal back
\* as it came; map_error(g) turns Error(e) into Error(g(e)) and gives Next(v),
\* Completed and Unsubscribed back as they came.
C26_MapPreservesShape ==
  Mapped =>
    /\ mapOut.kind = mapIn.kind /\ mapOut.t = mapIn.t
    /\ mapOp = "map_value" =>
         /\ mapOut.e = mapIn.e
         /\ mapOut.v = IF mapIn.kind = "Next" THEN mapFn[mapIn.v] ELSE mapIn.v
    /\ mapOp = "map_error" =>
         /\ mapOut.v = mapIn.v
         /\ mapOut.e = IF mapIn.t = "Error" THEN mapFn[mapIn.e] ELSE mapIn.e

C26_Witness ==
  /\ Mapped /\ mapOp = "map_value"
  /\ mapIn = EventTerminated("Error", 1) /\ mapFn[1] = 0
  /\ mapOut = EventTerminated("Error", 1)

\* ------------------------------------------------------------ late cancel
\* C27: invoking the token of a task that has run changes no task: the task
\* stays done, no other task is cancelled and the call does not panic; and a
\* task that has run stays done whether or not its token is ever invoked.
C27_LateCancelNoOp ==
  /\ [][\A i \in DOMAIN tasks :
          (Invoked(i) /\ tasks[i].state = "done") =>
            (tasks' = tasks /\ events' = events /\ ~panicked')]_vars
  /\ [][\A i \in DOMAIN tasks : \A j \in DOMAIN tasks :
          (Invoked(i) /\ j # i) => tasks'[j] = tasks[j]]_vars
  /\ [][\A i \in DOMAIN tasks :
          tasks[i].state = "done" => tasks'[i] = tasks[i]]_vars

C27_Witness ==
  /\ Len(tasks) = 2
  /\ tasks[1].state = "done" /\ ~Held(1)
  /\ tasks[2].state = "pending" /\ Held(2)

\* ------------------------------------------------- dispose after terminal
\* C28: disposing the Subscription of an observer whose log ends with
\* Completed or Error leaves the log as it is: the cleanup action runs (the
\* observer's entry leaves the registry, the handle's action is taken) and
\* nothing is handed to the observer, without a panic.
C28_NoCancelAfterTerminal ==
  [][\A o \in Obs :
       (Disposing(o) /\ ~Unterminated(o)
          /\ Last(events[o]).t \in {"Completed", "Error"}) =>
         /\ events'[o] = events[o]
         /\ ~panicked'
         /\ haction'[o] = NoAction
         /\ \A k \in DOMAIN observers' : observers'[k] # o]_vars

C28_Witness ==
  \E o \in Obs :
    /\ hstate[o] = "dropped" /\ hkind[o] = "Subscription"
    /\ events[o] = <<Next_(1), Terminated_("Error")>>
    /\ \A k \in DOMAIN observers : observers[k] # o

\* ------------------------------------------------ fan-out under contention
Unlocks == th["pub"].pc = "fan" /\ th'["pub"].pc = "idle"
Registered == {observers[k] : k \in DOMAIN observers}
NoReentrantHandler == \A o \in Obs : react[o] = "log"

\* C29: with handlers that do not call back into the subject, when the
\* fan-out of an event gives the registry lock back, every observer that was
\* registered and unterminated when the lock was taken has had the event
\* appended to its log once and nothing else, and every observer that was
\* terminated has its log unchanged; and when no call is in progress the
\* registry holds exactly the observers with a live Subscription, each under
\* one key.
C29_FanOutUnderContention ==
  /\ [][(Unlocks /\ NoReentrantHandler) =>
          \A o \in DOMAIN snapshot :
            events[o] = IF snapshot[o].terminated THEN snapshot[o].log
                        ELSE Append(snapshot[o].log, th["pub"].ev)]_vars
  /\ []((Quiet /\ NoReentrantHandler) =>
          /\ Registered = {o \in Obs : hstate[o] = "live"}
          /\ Cardinality(DOMAIN observers) = Cardinality(Registered))

C29_Witness ==
  /\ Quiet /\ NoReentrantHandler /\ kind = "publish"
  /\ hstate[Racer] = "dropped"
  /\ events[Racer] = <<Next_(1), Terminated_("Unsubscribed")>>
  /\ \A o \in Settled : events[o] = <<Next_(1), Next_(2)>>
  /\ Registered = Settled

\* ------------------------------------------------ value before fan-out
HandsNext(t) == th[t].pc = "o_on" /\ ~IsTerminated(th[t].ev)

\* C30: in an on_next(v) call on a BehaviorSubject, whenever the fan-out
\* hands Next(v) to an observer the subject's value is already v, and when
\* the call gives the lock back and returns the value is v.
C30_ValueBeforeFanOut ==
  /\ [][(kind = "behavior" /\ Stepped("pub") /\ HandsNext("pub")) =>
          value = th["pub"].ev.v]_vars
  /\ [][(kind = "behavior" /\ Unlocks /\ ~IsTerminated(th["pub"].ev)) =>
          value' = th["pub"].ev.v]_vars

C30_Witness ==
  /\ kind = "behavior" /\ At("pub", "fan") /\ th["pub"].ev = Next_(2)
  /\ value = 2
  /\ \E o \in Settled : events[o] = <<Next_(Seed), Next_(1), Next_(2)>>

\* ------------------------------------------------ inserted disposal actions
\* the cleanup actions of handle h in the order disposal has to run them:
\* the inserted ones, the latest first, then the constructor's
CleanupOrder(h) ==
  [i \in 1..inserts[h] |-> inserts[h] + 1 - i]
    \o (IF hkind[h] = "Subscription" THEN <<0>> ELSE << >>)

\* C24: no cleanup action of a Subscription runs while it is alive; once it
\* is disposed (unsubscribe or drop) every inserted action and the
\* constructor's action have run exactly once, each inserted action before
\* the one it was inserted in front of and the constructor's last; and the
\* disposal of a Subscription whose observer is unterminated appends exactly
\* one Unsubscribed to the observer's log.
C24_InsertedActionOrder ==
  /\ [](\A h \in Handle :
          /\ hstate[h] # "dropped" => ran[h] = << >>
          /\ hstate[h] = "dropped" => ran[h] = CleanupOrder(h))
  /\ [][\A h \in Handle : (Disposing(h) /\ Unterminated(h)) =>
          /\ events'[h] = Append(events[h], Terminated_("Unsubscribed"))
          /\ ~panicked']_vars
  /\ [][\A h \in Handle : (Disposing(h) /\ ~Unterminated(h)) =>
          /\ events'[h] = events[h]
          /\ ~panicked']_vars

C24_Witness ==
  \E h \in Handle :
    /\ hstate[h] = "dropped" /\ hkind[h] = "Subscription"
    /\ inserts[h] = 2 /\ ran[h] = <<2, 1, 0>> /\ counter[h] = 1
    /\ events[h] = <<Next_(1), Terminated_("Unsubscribed")>>

\* ------------------------------------------------ concurrent publishers
\* the value of the last Next in a log
RECURSIVE LastNext(_)
LastNext(log) ==
  IF log = << >> THEN Seed
  ELSE IF ~IsTerminated(Last(log)) THEN Last(log).v
  ELSE LastNext(SubSeq(log, 1, Len(log) - 1))

\* C21: when no call is in progress, the value of the BehaviorSubject is the
\* value of the last Next handed to each registered observer (the seed when
\* there was none).
C21_ValueIsLastFannedOut ==
  (Quiet /\ kind = "behavior") =>
    \A o \in Registered : value = LastNext(events[o])

\* -------------------------------------------------------- chained subjects
\* the source has been handed Completed and Error only
SourceTerminalsOnly ==
  \A i \in DOMAIN sent : sent[i] # Terminated_("Unsubscribed")

\* C22: with a source that emits no terminal but Completed and Error, an
\* observer's log ends with Unsubscribed only if the observer's own
\* Subscription has been disposed, also for an observer of a subject that is
\* subscribed to another subject.
C22_CancelledOnlyByOwnDispose ==
  SourceTerminalsOnly =>
    \A o \in Obs :
      (~Unterminated(o) /\ Last(events[o]) = Terminated_("Unsubscribed")) =>
        hstate[o] = "dropped"

\* C25: an observer subscribed to subject_b after subject_b was subscribed
\* to subject_a, both subscriptions alive, has logged exactly the events
\* subject_a accepted since (after the replayed value, for a
\* BehaviorSubject), in order; and for BehaviorSubjects every event
\* subject_a accepts while subject_b is subscribed leaves the two with the
\* same value and the same remembered terminal.
C25_ChainForwards ==
  /\ [](\A o \in Obs :
          (up.link = "live" /\ Subscribed(o) /\ o \notin up.before) =>
            events[o] = (IF kind = "behavior"
                         THEN <<Next_(ValueAt(subscribedAt[o]))>> ELSE << >>)
                          \o SubSeq(sent, subscribedAt[o] + 1, Len(sent)))
  /\ [][(kind = "behavior" /\ up.link = "live" /\ sent' # sent) =>
          /\ value' = up'.value
          /\ behaviorTerminated' = up'.behaviorTerminated]_vars

C25_Witness ==
  /\ kind = "behavior" /\ up.link = "live"
  /\ sent = <<Next_(1), Terminated_("Completed")>>
  /\ up.value = 1 /\ value = 1
  /\ up.behaviorTerminated = "Completed" /\ behaviorTerminated = "Completed"
  /\ \E o \in Obs : /\ Subscribed(o) /\ o \notin up.before
                     /\ events[o] = <<Next_(Seed), Next_(1), Terminated_("Completed")>>

\* ------------------------------------------------------- cold observables
\* the events the source of c emits to one subscription
ColdScript(c) ==
  IF c.source = "just" THEN <<EventNext(c.value), ColdTerminal(c)>>
  ELSE [k \in 1..c.nexts |-> EventNext(k)]
         \o (IF c.term = "None" THEN << >> ELSE <<ColdTerminal(c)>>)

\* the log a single subscription to c records
Alone(c) ==
  [k \in 1..Len(ColdScript(c)) |->
     IF c.mapped THEN EventMapValue(ColdScript(c)[k], c.f) ELSE ColdScript(c)[k]]

\* C23: whatever the other subscriptions to the same cold observable have
\* done, a subscription's log is the log a single subscription records, up
\* to where its call has come, and all of it once subscribe has returned,
\* also after the handle was disposed; at most one terminal, and last.
C23_IndependentSubscriptions ==
  /\ ~panicked
  /\ \A i \in Obs :
       /\ cold.pos[i] <= Len(Alone(cold))
       /\ events[i] = SubSeq(Alone(cold), 1, cold.pos[i])
       /\ cold.pc[i] \in {"done", "disposed"} => events[i] = Alone(cold)
       /\ \A k \in 1..Len(events[i]) :
            IsTerminated(events[i][k]) => k = Len(events[i])

C23_Witness ==
  /\ cold.source = "create" /\ cold.mapped /\ cold.nexts = 2 /\ cold.term = "Error"
  /\ cold.f[1] = 2 /\ cold.f[2] = 0
  /\ cold.pc[1] = "disposed" /\ cold.pc[2] = "done"
  /\ events[1] = <<EventNext(2), EventNext(0), EventTerminated("Error", 1)>>
  /\ events[2] = events[1]

C33_BehaviorStateFrame ==
  /\ [][hstate' # hstate =>
          value' = value /\ behaviorTerminated' = behaviorTerminated]_vars
  /\ [][(sent' # sent /\ IsTerminated(Last(sent'))) => value' = value]_vars
  /\ [](value = ValueAt(Len(sent)))

C33_Witness ==
  /\ sent = <<Next_(1), Terminated_("Completed")>>
  /\ value = 1 /\ behaviorTerminated = "Completed"
  /\ hstate[1] = "dropped" /\ hstate[2] = "live"
  /\ events[1] = <<Next_(Seed), Next_(1), Terminated_("Unsubscribed")>>
  /\ events[2] = <<Next_(1), Terminated_("Completed")>>

\* ------------------------------------------------------ registry invariant
\* C36: the registry holds exactly one entry for each Subscription that
\* subscribe returned and that is neither disposed nor dropped, under the key
\* its disposal action removes, and no other entry; handing the subject an
\* event, a terminal included, leaves the registry as it was.
C36_RegistryInvariant ==
  /\ [](\A o \in Obs : Subscribed(o) =>
          /\ haction[o] = RemoveAction(haction[o].arg)
          /\ {k \in DOMAIN observers : observers[k] = o} = {haction[o].arg})
  /\ [](\A k \in DOMAIN observers : Subscribed(observers[k]))
  /\ [](Cardinality(DOMAIN observers) = Cardinality({o \in Obs : Subscribed(o)}))
  /\ [][emits' # emits => observers' = observers]_vars

C36_Witness ==
  /\ Closed
  /\ hstate[1] = "dropped" /\ Subscribed(2)
  /\ subscribedAt[2] = Len(sent)
  /\ Cardinality(DOMAIN observers) = 1

\* ------------------------------------------------- the steps of a disposal
\* thread t comes back from the disposal closure of a Subscription
Returns(t) ==
  /\ th[t].pc \in {"d_check", "d_check2", "d_on"}
  /\ th'[t].pc = th[t].ret

\* C35: the disposal closure of a Subject subscription hands the observer
\* Unsubscribed only after its disposal action has removed the observer's
\* registry entry, and when the closure returns the action has run, the
\* entry is gone and the observer is terminated.
C35_CleanupThenCancelled ==
  /\ [][\A t \in Threads :
          (Stepped(t) /\ th[t].pc = "d_on") =>
             /\ haction[th[t].o] = NoAction
             /\ \A k \in DOMAIN observers : observers[k] # th[t].o
             /\ events'[th[t].o] = Append(events[th[t].o], Terminated_("Unsubscribed"))]_vars
  /\ [][\A t \in Threads :
          Returns(t) =>
             /\ haction'[th[t].o] = NoAction
             /\ \A k \in DOMAIN observers' : observers'[k] # th[t].o
             /\ obsTerminated'[th[t].o]]_vars

C35_Witness ==
  /\ th["usr"].pc = "idle" /\ hstate[Racer] = "dropped"
  /\ "pub" \in readers /\ th["pub"].ev = Next_(2)
  /\ events[Racer] = <<Next_(1), Terminated_("Unsubscribed")>>
  /\ \A k \in DOMAIN observers : observers[k] # Racer

\* ------------------------------------------------ delay: after the terminal
\* the values the upstream has handed to Delay, in receive order
ReceivedValues == [i \in 1..Len(SelectSeq(tasks, LAMBDA k : k.task.fn = "next")) |->
                     SelectSeq(tasks, LAMBDA k : k.task.fn = "next")[i].task.v]

\* the values in the downstream log, in delivery order
RECURSIVE ValuesOf(_)
ValuesOf(log) ==
  IF log = << >> THEN << >>
  ELSE IF Head(log).kind = "Next" THEN <<Head(log).v>> \o ValuesOf(Tail(log))
  ELSE ValuesOf(Tail(log))

\* C37: once the upstream has sent Error, the Error is the last entry of the
\* downstream log for ever: the observer cell is empty, no task scheduled
\* for an earlier Next is left to run, and the log never changes again.
C37_NothingAfterError ==
  /\ [](upTerminal = "Error" =>
          /\ DownLog # << >> /\ Last(DownLog) = Terminated_("Error")
          /\ ~cell
          /\ \A i \in DOMAIN tasks : tasks[i].state # "pending")
  /\ [][upTerminal = "Error" => events' = events]_vars
  /\ [](\A i \in 1..Len(DownLog) :
          DownLog[i] = Terminated_("Error") => i = Len(DownLog))

C37_Witness ==
  /\ upTerminal = "Error"
  /\ DownLog = <<Next_(1), Terminated_("Error")>>
  /\ Len(tasks) = 2
  /\ tasks[1].state = "done" /\ tasks[2].state = "aborted"
  /\ tasks[2].task = NextClosure(2)
  /\ now >= tasks[2].due

\* C38: when the downstream observer is handed Completed, with the returned
\* Disposal never disposed, it has been handed every value the upstream
\* sent before, whichever due task the scheduler runs first.
C38_NoValueLostBeforeCompleted ==
  (outer = "live" /\ DownLog # << >> /\ Last(DownLog) = Terminated_("Completed")) =>
    \A v \in Val :
      Cardinality({i \in DOMAIN ReceivedValues : ReceivedValues[i] = v})
        = Cardinality({i \in DOMAIN ValuesOf(DownLog) : ValuesOf(DownLog)[i] = v})

\* ------------------------------------------------------- delay: liveness
CompletedDelivered == DownLog # << >> /\ Last(DownLog) = Terminated_("Completed")

\* C39: with a timer that advances and a scheduler that runs every task
\* whose sleep is over, a Completed sent by the upstream is eventually
\* handed to the downstream observer; until then every token is still in
\* the collection and no task has been aborted.
C39_CompletedEventuallyDelivered ==
  /\ (upTerminal = "Completed") ~> CompletedDelivered
  /\ []((upTerminal = "Completed" /\ ~CompletedDelivered) =>
          /\ Len(disposals) = Len(tasks)
          /\ \A i \in DOMAIN tasks : tasks[i].state # "aborted")

C39_Witness ==
  /\ outer = "live"
  /\ DownLog = <<Next_(2), Next_(1), Terminated_("Completed")>>
  /\ \A i \in DOMAIN tasks : tasks[i].state = "done"
  /\ disposals = << >>

\* C40: a task handed to schedule runs at most once: its body starts only
\* from the state in which it has not started, and a task that ran or was
\* cancelled stays so. With a timer that advances and a runtime that polls
\* every task whose sleep is over, every task leaves the state of not having
\* started, and it is cancelled only in the call of its own token, so a
\* task whose token is never invoked runs. A task changes only when it runs
\* or its own token is invoked: scheduling another task, or running or
\* cancelling one, leaves it as it was.
C40_TaskRunsOnceIndependently ==
  /\ [][\A i \in DOMAIN tasks :
          /\ i \in DOMAIN tasks'
          /\ tasks[i].state # "pending" => tasks'[i] = tasks[i]
          /\ tasks'[i] # tasks[i] =>
               \/ Ran(i) /\ ~Invoked(i)
               \/ Invoked(i) /\ tasks'[i].state = "aborted"]_vars
  /\ \A i \in 1..MaxEmits :
       (i \in DOMAIN tasks) ~> (i \in DOMAIN tasks /\ tasks[i].state # "pending")
  /\ \A i \in 1..MaxEmits :
       [](i \in DOMAIN tasks /\ tasks[i].state = "aborted" => ~Held(i))

C40_Witness ==
  /\ Len(tasks) = 2
  /\ tasks[1].state = "aborted" /\ tasks[2].state = "done"
  /\ tasks[2].at < tasks[2].due
  /\ disposals = <<2>>

\* ------------------------------------------------ delay, scheduler threads
InObserver(i) == i \in DOMAIN tasks /\ tasks[i].state = "inside"
InsideCount ==
  Cardinality({i \in DOMAIN tasks : InObserver(i)}) + (IF dobs = "inside" THEN 1 ELSE 0)

\* C32 as stated: at most one scheduled callback at a time is inside the
\* downstream observer, and every callback that is inside it holds the
\* lock of the observer cell.
C32_EveryDeliveryUnderLock ==
  /\ InsideCount <= 1
  /\ \A i \in DOMAIN tasks : InObserver(i) => guard = i

\* C32: at most one scheduled callback at a time is inside the downstream
\* observer (nor is one inside it while the upstream's Error is being
\* delivered), on any number of scheduler threads: a value callback is
\* inside on_next only while it holds the lock of the cell, with the
\* observer in the cell; the Completed callback is inside on_terminal
\* without the lock, after it has emptied the cell under the lock.
C32_OneDeliveryAtATime ==
  /\ InsideCount <= 1
  /\ \A i \in DOMAIN tasks : InObserver(i) =>
       IF tasks[i].task.fn = "next" THEN guard = i /\ cell
       ELSE guard # i /\ ~cell

C32_Witness ==
  /\ Len(tasks) = 2
  /\ tasks[1].task.fn = "next" /\ tasks[1].state = "locked" /\ guard = 1
  /\ tasks[2].task.fn = "terminal" /\ tasks[2].state = "inside"
  /\ DownLog = <<Terminated_("Completed")>>

\* -------------------------------------------------------- operator chains
\* an event after it has passed mappers l..Len(fs)
RECURSIVE MapThrough(_, _, _)
MapThrough(ev, l, fs) ==
  IF l > Len(fs) THEN ev ELSE MapThrough(EventMapValue(ev, fs[l]), l + 1, fs)

ChainLog(o) ==
  [k \in 1..Len(chain.script[o]) |-> MapThrough(chain.script[o][k], 1, chain.fs)]

\* C34: the log of the observer at the end of a chain of Maps is the
\* source's events, each taken through every mapper, followed by exactly
\* one Unsubscribed when the Subscription has been disposed or dropped and
\* the source had sent no terminal, and by nothing otherwise: so while the
\* Subscription is alive and the source has sent no terminal, the observer
\* is unterminated. Its flag, and the flag of every wrapper, is set exactly
\* when the log ends with a terminal.
C34_CancelThroughChain ==
  /\ ~panicked
  /\ \A o \in Obs :
       /\ events[o] =
            ChainLog(o) \o (IF hstate[o] = "dropped" /\ ~SourceTerminated(o)
                            THEN <<EventTerminated("Unsubscribed", 0)>> ELSE << >>)
       /\ obsTerminated[o] = ~Unterminated(o)
       /\ \A l \in DOMAIN chain.flag[o] : chain.flag[o][l] = obsTerminated[o]
       /\ (hstate[o] = "live" /\ ~SourceTerminated(o)) => Unterminated(o)
       /\ hkind[o] = "Subscription" =>
            counter[o] = (IF hstate[o] = "dropped" THEN 1 ELSE 0)

C34_Witness ==
  /\ Len(chain.fs) = 2
  /\ chain.fs[1][1] = 2 /\ chain.fs[2][2] = 0
  /\ hstate[1] = "dropped" /\ hkind[1] = "SubscriptionNonDisposalAction"
  /\ events[1] = <<EventNext(0), EventTerminated("Unsubscribed", 0)>>
  /\ hstate[2] = "live" /\ events[2] = <<EventNext(0)>>

====
